---- MODULE Spec2Model ----
(***************************************************************************)
(* Model of the PR Summarizer coordination substrate:                      *)
(*   - backend_server.py: MessageStore, /prompt SSE stream, /agent/message,*)
(*     /callback, /session/{id}/message, /health                           *)
(*   - agents/*.py: the agent runtime loops and their stimulus source      *)
(*   - shared/*.py: the tools the agents call, as functions of their      *)
(*     arguments, environment and the answer of the remote side            *)
(*   - the session's message broker, which the agents only call            *)
(* The event loop of the backend is single threaded and cooperative: a     *)
(* coroutine runs atomically from one suspension point (yield / await that *)
(* really suspends) to the next.  Every action below is one such segment.  *)
(***************************************************************************)
EXTENDS Integers, Sequences, FiniteSets, TLC

\* ------------------------------------------------------------------ bounds
MaxStreams == 2      \* number of /prompt requests observed
MaxObserved == 1     \* the same in the specifications of one request
MaxMessages == 2     \* number of events accepted by /agent/message, /callback
MaxKeepalive == 2    \* number of wait-window timeouts observed
MaxDisconnect == 1   \* number of client disconnects observed
MaxQueue == 3        \* number of direct add_user_message calls (SpecQueue)
MaxSent == 2         \* number of messages sent through the broker

\* --------------------------------------------------------------- constants
None == "None"
NoSession == 0       \* session_info before a session was created
NoSessionInfo == [sessionId |-> NoSession]
Streams == 1..MaxStreams
SessionIds == 1..MaxStreams
Terminal == {"complete", "error"}
EventTypes == {"action", "error", "complete"}
Texts == {"analyze"}

AUTOMATED == "[automated]"

\* the values a free-text field takes: empty or not
Words == {"", "x"}

\* CallbackMessage: request_id is required, the other fields default to ""
CallbackMessages ==
  [request_id : {"r1"}, summary : Words, risk_report : Words,
   voice_url : Words, output : Words]

\* the bodies posted while the streams are observed: every field left at
\* its default, or every field filled
PostedCallbacks ==
  {callback \in CallbackMessages :
     /\ callback.risk_report = callback.summary
     /\ callback.voice_url = callback.summary
     /\ callback.output = callback.summary}

\* str(uuid.uuid4()) of the request of each stream (310), and a request id
\* no request was given
RequestIdOf == <<"1", "2", "3", "4">>
RequestIds == {"1", "unknown"}

\* the callbacks that differ in request_id and in the summary
RequestIdCallbacks ==
  [request_id : RequestIds, summary : Words, risk_report : {""},
   voice_url : {""}, output : {""}]

\* Payloads of POST /agent/message: which keys are present, and the value of
\* the status key (None when the key is absent).
Payloads ==
  [agent_id : BOOLEAN, status : {None, "running", "completed", "failed"},
   summary : BOOLEAN, error : BOOLEAN]

\* {agent_id, action, detail, status}: the send_action_update tool schema
ActionUpdatePayloads ==
  {p \in Payloads : p.agent_id /\ p.status # None /\ ~p.summary /\ ~p.error}

\* {agent_id, summary, ...}: the send_completion tool schema
CompletionPayloads ==
  {p \in Payloads : p.agent_id /\ p.status = None /\ p.summary /\ ~p.error}

\* payloads without agent_id (direct custom tool call format)
ToolPayloads ==
  {p \in Payloads : ~p.agent_id /\ p.status = None}

PostedPayloads == ActionUpdatePayloads \cup CompletionPayloads \cup ToolPayloads

VARIABLES
  messages,             \* MessageStore.messages: the append-only log
  connections,          \* MessageStore.connections: list of queues (by stream)
  sessions,             \* MessageStore.sessions: session id -> session data
  user_message_queues,  \* MessageStore.user_message_queues
  queue,                \* the asyncio.Queue created by each stream
  pc,                   \* position of each event_stream generator
  session_info,         \* local session_info of each event_stream
  emitted,              \* the events each stream has yielded to its client
  cancelled,            \* the client of the stream disconnected
  registered_at,        \* length of the log when the stream's queue was added
  coral_sessions,       \* the sessions the Coral server has created
  origin,               \* per log entry: the endpoint that produced it
  enq, ret,             \* per session: messages enqueued / returned by polls
  resp,                 \* last response of GET /session/{id}/message
  agent,                \* the observed agent process (agents/*.py main);
                        \* delayed: sleep() has returned since the last astep
  polled,               \* <<session, agent kind>> that called the poll endpoint
  tool_call,            \* the tool or endpoint invocation observed: name,
                        \* arguments, environment, answer of the remote side
  tool_result,          \* what the invocation gave back to its caller
  thread,               \* broker: the messages of the session, in send order
  cursor,               \* broker: per agent, how much of thread it was served
  received              \* per agent: what wait_for_mentions has returned

storeVars == <<messages, connections, sessions, user_message_queues>>
streamVars ==
  <<queue, pc, session_info, emitted, cancelled, coral_sessions, registered_at>>
queueVars == <<enq, ret, resp>>
toolVars == <<tool_call, tool_result>>
brokerVars == <<thread, cursor, received>>
agentVars == <<agent, polled, toolVars, brokerVars>>
vars == <<storeVars, streamVars, origin, queueVars, agentVars>>

\* ----------------------------------------------------------------- helpers
Range(s) == {s[i] : i \in 1..Len(s)}
Last(s) == s[Len(s)]

\* an event as the client sees it; id is the identity of the relayed message
\* object (index in the log), 0 for events synthesized by the stream itself
BackendEvent(type, action) ==
  [event |-> type, id |-> 0, source |-> "backend", action |-> action]

RelayedEvent(msg) ==
  [event |-> msg.event, id |-> msg.id, source |-> "agent", action |-> "relay"]

IsKeepalive(e) == e.action = "Waiting for Analysis"

\* ------------------------------------------------------------ MessageStore
\* mutant: the new queue is filled with the log
add_connection_replay(c) ==
  /\ queue' = [queue EXCEPT ![c] = messages]
  /\ connections' = Append(connections, c)

\* add_connection: the queue of stream c is created empty and appended
add_connection(c) ==
  /\ queue' = [queue EXCEPT ![c] = <<>>]
  /\ connections' = Append(connections, c)

\* mutant: the queue stays in the list
remove_connection_leak(c) ==
  connections' = connections

\* remove_connection: remove the queue if it is in the list
remove_connection(c) ==
  connections' = SelectSeq(connections, LAMBDA q : q # c)

\* mutant: the new message is put at the front of each queue
add_message_front(message, fail) ==
  /\ messages' = Append(messages, message)
  /\ queue' = [c \in Streams |->
                 IF c \in Range(connections) /\ c \notin fail
                 THEN <<message>> \o queue[c] ELSE queue[c]]
  /\ connections' = SelectSeq(connections, LAMBDA q : q \notin fail)

\* mutant: the first put that raises ends the fan-out; the queues behind it
\* in the list are not served
add_message_abort(message, fail) ==
  LET first == IF \E i \in 1..Len(connections) : connections[i] \in fail
               THEN CHOOSE i \in 1..Len(connections) :
                      /\ connections[i] \in fail
                      /\ \A j \in 1..(i - 1) : connections[j] \notin fail
               ELSE Len(connections) + 1
      served == {connections[i] : i \in 1..(first - 1)}
  IN /\ messages' = Append(messages, message)
     /\ queue' = [c \in Streams |->
                    IF c \in served THEN Append(queue[c], message)
                    ELSE queue[c]]
     /\ connections' = SelectSeq(connections, LAMBDA q : q \notin fail)

\* add_message: append to the log, then put into every connection's queue;
\* a put that raises (fail) prunes that queue from the list.  The loop
\* iterates the list object it started with, so every other queue is served.
add_message(message, fail) ==
  /\ messages' = Append(messages, message)
  /\ queue' = [c \in Streams |->
                 IF c \in Range(connections) /\ c \notin fail
                 THEN Append(queue[c], message) ELSE queue[c]]
  /\ connections' = SelectSeq(connections, LAMBDA q : q \notin fail)

\* mutant: the queue of a session that has one is kept (setdefault)
create_session_keeps_queue(session_id, session_data) ==
  /\ sessions' = [s \in DOMAIN sessions \cup {session_id} |->
                    IF s = session_id THEN session_data ELSE sessions[s]]
  /\ user_message_queues' =
       [s \in DOMAIN user_message_queues \cup {session_id} |->
          IF s \in DOMAIN user_message_queues
          THEN user_message_queues[s] ELSE <<>>]

\* create_session: store the data and (re)initialize the session's queue
create_session(session_id, session_data) ==
  /\ sessions' = [s \in DOMAIN sessions \cup {session_id} |->
                    IF s = session_id THEN session_data ELSE sessions[s]]
  /\ user_message_queues' =
       [s \in DOMAIN user_message_queues \cup {session_id} |->
          IF s = session_id THEN <<>> ELSE user_message_queues[s]]

\* add_user_message: create the queue if missing, append
add_user_message(session_id, message) ==
  user_message_queues' =
    [s \in DOMAIN user_message_queues \cup {session_id} |->
       IF s = session_id
       THEN Append(IF s \in DOMAIN user_message_queues
                   THEN user_message_queues[s] ELSE <<>>, message)
       ELSE user_message_queues[s]]

\* mutant: pop() instead of pop(0)
get_user_message_result_lifo(session_id) ==
  IF session_id \in DOMAIN user_message_queues
     /\ user_message_queues[session_id] # <<>>
  THEN Last(user_message_queues[session_id])
  ELSE None

\* get_user_message: value returned (None when no queue or empty queue)
get_user_message_result(session_id) ==
  IF session_id \in DOMAIN user_message_queues
     /\ user_message_queues[session_id] # <<>>
  THEN Head(user_message_queues[session_id])
  ELSE None

\* mutant: a poll for a session without a queue creates its queue
get_user_message_creates(session_id) ==
  user_message_queues' =
    IF session_id \in DOMAIN user_message_queues
    THEN IF user_message_queues[session_id] # <<>>
         THEN [user_message_queues EXCEPT ![session_id] = Tail(@)]
         ELSE user_message_queues
    ELSE [s \in DOMAIN user_message_queues \cup {session_id} |->
            IF s = session_id THEN <<>> ELSE user_message_queues[s]]

\* get_user_message: effect on the queues (pop(0))
get_user_message(session_id) ==
  user_message_queues' =
    IF session_id \in DOMAIN user_message_queues
       /\ user_message_queues[session_id] # <<>>
    THEN [user_message_queues EXCEPT ![session_id] = Tail(@)]
    ELSE user_message_queues

\* ------------------------------------------------ POST /agent/message
\* mutant: a payload with agent_id is published under its status
EventTypeOf_status(request_data) ==
  IF request_data.agent_id
  THEN IF request_data.status = None THEN "running" ELSE request_data.status
  ELSE IF request_data.summary THEN "complete"
       ELSE IF request_data.error THEN "error"
       ELSE "action"

\* mutant: without agent_id, the error key is looked at before summary
EventTypeOf_error_first(request_data) ==
  IF request_data.agent_id
  THEN IF request_data.status = "failed" THEN "error" ELSE "action"
  ELSE IF request_data.error THEN "error"
       ELSE IF request_data.summary THEN "complete"
       ELSE "action"

\* mutant: the summary key is looked at before agent_id
EventTypeOf_summary_first(request_data) ==
  IF request_data.summary THEN "complete"
  ELSE IF request_data.agent_id
       THEN IF request_data.status = "failed" THEN "error" ELSE "action"
       ELSE IF request_data.error THEN "error" ELSE "action"

\* the event type receive_agent_message gives a payload
EventTypeOf(request_data) ==
  IF request_data.agent_id
  THEN IF request_data.status = "failed" THEN "error" ELSE "action"
  ELSE IF request_data.summary THEN "complete"
       ELSE IF request_data.error THEN "error"
       ELSE "action"

NewMessage(event_type) == [event |-> event_type, id |-> Len(messages) + 1]

\* the body returned to the caller (line 398)
agent_message_response(request_data) == <<<<"status", "received">>>>

\* lines 341-395: what the handler does to the store
publish_agent_message(session_id, request_data, fail) ==
  /\ Len(messages) < MaxMessages
  /\ add_message(NewMessage(EventTypeOf(request_data)), fail)
  /\ origin' = Append(origin, "agent_message")
  /\ UNCHANGED <<sessions, user_message_queues, pc, session_info, emitted,
                 cancelled, coral_sessions, registered_at, queueVars,
                 agent, polled>>

receive_agent_message(session_id, request_data, fail) ==
  /\ publish_agent_message(session_id, request_data, fail)
  /\ UNCHANGED <<toolVars, brokerVars>>

\* ------------------------------------------------ POST /callback
\* mutant: a callback without a summary is published as an error
callback_event_by_summary(callback) ==
  IF callback.summary = "" THEN "error" ELSE "complete"

\* the event type of the published message is the literal "complete"
callback_event(callback) == "complete"

\* the body returned to the caller
callback_response(callback) == <<<<"status", "received">>>>

\* mutant: the event goes only to the stream whose request the callback
\* names
publish_callback_matched(session_id, callback, fail) ==
  /\ Len(messages) < MaxMessages
  /\ messages' = Append(messages, NewMessage(callback_event(callback)))
  /\ queue' = [c \in Streams |->
                 IF c \in Range(connections)
                    /\ callback.request_id = RequestIdOf[c]
                 THEN Append(queue[c], NewMessage(callback_event(callback)))
                 ELSE queue[c]]
  /\ connections' = connections
  /\ origin' = Append(origin, "callback")
  /\ UNCHANGED <<sessions, user_message_queues, pc, session_info, emitted,
                 cancelled, coral_sessions, registered_at, queueVars,
                 agent, polled>>

\* lines 403-415: what the handler does to the store
publish_callback(session_id, callback, fail) ==
  /\ Len(messages) < MaxMessages
  /\ add_message(NewMessage(callback_event(callback)), fail)
  /\ origin' = Append(origin, "callback")
  /\ UNCHANGED <<sessions, user_message_queues, pc, session_info, emitted,
                 cancelled, coral_sessions, registered_at, queueVars,
                 agent, polled>>

receive_callback(session_id, callback, fail) ==
  /\ publish_callback(session_id, callback, fail)
  /\ UNCHANGED <<toolVars, brokerVars>>

\* ------------------------------------------------ GET /session/{id}/message
get_user_message_endpoint(session_id) ==
  LET message == get_user_message_result(session_id) IN
  /\ get_user_message(session_id)
  /\ resp' = IF message # None /\ message # ""
             THEN [session |-> session_id, message |-> message,
                   has_message |-> TRUE]
             ELSE [session |-> session_id, message |-> None,
                   has_message |-> FALSE]
  /\ ret' = IF message # None
            THEN [ret EXCEPT ![session_id] = Append(@, message)]
            ELSE ret

\* ------------------------------------------------ GET /prompt
Emit(c, e) == emitted' = [emitted EXCEPT ![c] = Append(@, e)]

\* lines 423-437: add_connection, yield 'Creating Session'
handle_prompt(c) ==
  /\ pc[c] = "idle"
  /\ add_connection(c)
  /\ Emit(c, BackendEvent("action", "Creating Session"))
  /\ pc' = [pc EXCEPT ![c] = "creating"]
  /\ registered_at' = [registered_at EXCEPT ![c] = Len(messages)]
  /\ UNCHANGED <<messages, sessions, user_message_queues, session_info,
                 cancelled, coral_sessions, origin, queueVars, agentVars>>

\* create_coral_session (287-304): the Coral server answers 200 with the
\* info of a session it has just allocated, or the call fails and the result
\* is None.  A fresh session id is unlike every earlier one; the id handed
\* out for the request of stream c is named c.
\* the agent graph of session_payload (114-168): the custom tools each agent
\* is granted.  The payload is a literal, the same for every request
\* mutant: the voice agent is granted the tools of the orchestrator
customToolAccess_voice ==
  [a \in {"orchestrator-agent", "summarizer-agent", "risk-agent",
          "voice-agent"} |->
     IF a \in {"orchestrator-agent", "voice-agent"}
     THEN {"send_action_update", "send_completion", "webhook_callback"}
     ELSE {"send_action_update"}]

customToolAccess ==
  [a \in {"orchestrator-agent", "summarizer-agent", "risk-agent",
          "voice-agent"} |->
     IF a = "orchestrator-agent"
     THEN {"send_action_update", "send_completion", "webhook_callback"}
     ELSE {"send_action_update"}]

\* the custom tools the payload declares (169-270)
customTools == {"send_action_update", "send_completion", "webhook_callback"}

\* the agent graph the Coral server holds for a session it created
agent_graph(session_id) == customToolAccess

\* mutant: every request is answered with the same session
create_coral_session_shared(c, ok) ==
  IF ok THEN [sessionId |-> 1] ELSE NoSessionInfo

create_coral_session(c, ok) ==
  IF ok THEN [sessionId |-> c] ELSE NoSessionInfo

\* lines 440-458 once create_coral_session has returned the session info:
\* the session is stored, yield 'Session Created'
store_session(c) ==
  /\ create_coral_session(c, TRUE) # NoSessionInfo
  /\ coral_sessions' = coral_sessions \cup {c}
  /\ session_info' = [session_info EXCEPT ![c] =
                        create_coral_session(c, TRUE).sessionId]
  /\ create_session(create_coral_session(c, TRUE).sessionId,
                    create_coral_session(c, TRUE))
  /\ Emit(c, BackendEvent("action", "Session Created"))
  /\ pc' = [pc EXCEPT ![c] = "created"]
  /\ UNCHANGED <<messages, connections, queue, cancelled, registered_at,
                 origin, queueVars, agentVars>>

\* lines 439-458: the generator is resumed, create_coral_session succeeds and
\* the generator runs on to its next yield.  The call is synchronous: the
\* event loop runs nothing else between the resumption and that yield
session_created(c) ==
  /\ pc[c] = "creating"
  /\ store_session(c)

\* lines 440-443 once create_coral_session has returned None: yield the error
report_failure(c) ==
  /\ create_coral_session(c, FALSE) = NoSessionInfo
  /\ Emit(c, BackendEvent("error", "Failed to create agent session"))
  /\ pc' = [pc EXCEPT ![c] = "failed"]
  /\ UNCHANGED <<storeVars, queue, session_info, cancelled, coral_sessions,
                 registered_at, origin, queueVars, agentVars>>

\* mutant: the error is sent but the return is missing
session_failed_continues(c) ==
  /\ pc[c] = "creating"
  /\ create_coral_session(c, FALSE) = NoSessionInfo
  /\ Emit(c, BackendEvent("error", "Failed to create agent session"))
  /\ pc' = [pc EXCEPT ![c] = "processing"]
  /\ UNCHANGED <<storeVars, queue, session_info, cancelled, coral_sessions,
                 registered_at, origin, queueVars, agentVars>>

\* lines 439-443: the generator is resumed and create_coral_session fails
session_failed(c) ==
  /\ pc[c] = "creating"
  /\ report_failure(c)

\* mutant: the return after an error leaves without the finally block
return_after_error_leak(c) ==
  /\ pc[c] = "failed"
  /\ pc' = [pc EXCEPT ![c] = "done"]
  /\ UNCHANGED <<storeVars, queue, session_info, emitted, cancelled,
                 coral_sessions, registered_at, origin, queueVars, agentVars>>

\* line 444 and 506-507: return after the error was sent; finally
return_after_error(c) ==
  /\ pc[c] = "failed"
  /\ remove_connection(c)
  /\ pc' = [pc EXCEPT ![c] = "done"]
  /\ queue' = [queue EXCEPT ![c] = <<>>]
  /\ UNCHANGED <<messages, sessions, user_message_queues, session_info,
                 emitted, cancelled, coral_sessions, registered_at, origin,
                 queueVars, agentVars>>

\* lines 460-469: yield 'Processing Request'
processing_request(c) ==
  /\ pc[c] = "created"
  /\ Emit(c, BackendEvent("action", "Processing Request"))
  /\ pc' = [pc EXCEPT ![c] = "processing"]
  /\ UNCHANGED <<storeVars, queue, session_info, cancelled, coral_sessions,
                 registered_at, origin, queueVars, agentVars>>

\* send_message_to_orchestrator (306-322): the formatted message carries a
\* fresh request id (uuid4); it is appended to the session's queue
\* f"User Request (ID: {request_id}): {message}"
Formatted ==
  [m \in Texts |->
     <<"User Request (ID: 1): analyze", "User Request (ID: 2): analyze",
       "User Request (ID: 3): analyze", "User Request (ID: 4): analyze">>]

FormattedMessage(request_id, message) == Formatted[message][request_id]

send_message_to_orchestrator(c, session_id, message) ==
  /\ add_user_message(session_id, FormattedMessage(c, message))
  /\ enq' = [enq EXCEPT ![session_id] =
               Append(@, FormattedMessage(c, message))]

\* mutant: the receive loop is entered without the user message being queued
enter_receive_loop_unqueued(c) ==
  /\ pc[c] = "processing"
  /\ pc' = [pc EXCEPT ![c] = "waiting"]
  /\ UNCHANGED <<storeVars, queue, session_info, emitted, cancelled,
                 coral_sessions, registered_at, origin, queueVars, agentVars>>

\* lines 471-488: enqueue the user message and enter the receive loop
enter_receive_loop(c) ==
  /\ pc[c] = "processing"
  /\ \E message \in Texts :
       send_message_to_orchestrator(c, session_info[c], message)
  /\ pc' = [pc EXCEPT ![c] = "waiting"]
  /\ UNCHANGED <<messages, connections, sessions, queue, session_info,
                 emitted, cancelled, coral_sessions, registered_at, origin,
                 ret, resp, agentVars>>

\* mutant: only an error event ends the stream
relay_no_close(c) ==
  /\ pc[c] = "waiting"
  /\ queue[c] # <<>>
  /\ queue' = [queue EXCEPT ![c] = Tail(@)]
  /\ Emit(c, RelayedEvent(Head(queue[c])))
  /\ pc' = [pc EXCEPT ![c] = IF Head(queue[c]).event = "error"
                             THEN "closing" ELSE "waiting"]
  /\ UNCHANGED <<storeVars, session_info, cancelled, coral_sessions,
                 registered_at, origin, queueVars, agentVars>>

\* mutant: only a complete event ends the stream
relay_error_continues(c) ==
  /\ pc[c] = "waiting"
  /\ queue[c] # <<>>
  /\ queue' = [queue EXCEPT ![c] = Tail(@)]
  /\ Emit(c, RelayedEvent(Head(queue[c])))
  /\ pc' = [pc EXCEPT ![c] = IF Head(queue[c]).event = "complete"
                             THEN "closing" ELSE "waiting"]
  /\ UNCHANGED <<storeVars, session_info, cancelled, coral_sessions,
                 registered_at, origin, queueVars, agentVars>>

\* mutant: the break is missing, a terminal event is relayed like any other
relay_forever(c) ==
  /\ pc[c] = "waiting"
  /\ queue[c] # <<>>
  /\ queue' = [queue EXCEPT ![c] = Tail(@)]
  /\ Emit(c, RelayedEvent(Head(queue[c])))
  /\ UNCHANGED <<storeVars, pc, session_info, cancelled, coral_sessions,
                 registered_at, origin, queueVars, agentVars>>

\* lines 485-493: queue.get() returns a message and it is yielded to the
\* client; after a non-terminal event the loop waits again, after a terminal
\* one the generator is suspended at the yield with the break still to come
relay(c) ==
  /\ pc[c] = "waiting"
  /\ queue[c] # <<>>
  /\ queue' = [queue EXCEPT ![c] = Tail(@)]
  /\ Emit(c, RelayedEvent(Head(queue[c])))
  /\ pc' = [pc EXCEPT ![c] = IF Head(queue[c]).event \in Terminal
                             THEN "closing" ELSE "waiting"]
  /\ UNCHANGED <<storeVars, session_info, cancelled, coral_sessions,
                 registered_at, origin, queueVars, agentVars>>

\* mutant: the session of a finished stream is dropped with its queue
end_stream_evicts(c) ==
  /\ pc[c] = "closing"
  /\ remove_connection(c)
  /\ pc' = [pc EXCEPT ![c] = "done"]
  /\ queue' = [queue EXCEPT ![c] = <<>>]
  /\ sessions' = [s \in DOMAIN sessions \ {session_info[c]} |-> sessions[s]]
  /\ user_message_queues' =
       [s \in DOMAIN user_message_queues \ {session_info[c]} |->
          user_message_queues[s]]
  /\ UNCHANGED <<messages, session_info, emitted, cancelled, coral_sessions,
                 registered_at, origin, queueVars, agentVars>>

\* lines 492-493 and 506-507: break after the terminal event; finally. The
\* generator is finished and its local queue goes with it
end_stream(c) ==
  /\ pc[c] = "closing"
  /\ remove_connection(c)
  /\ pc' = [pc EXCEPT ![c] = "done"]
  /\ queue' = [queue EXCEPT ![c] = <<>>]
  /\ UNCHANGED <<messages, sessions, user_message_queues, session_info,
                 emitted, cancelled, coral_sessions, registered_at, origin,
                 queueVars, agentVars>>

\* lines 472-482 when send_message_to_orchestrator returns None (its except
\* branch, 320-322): nothing was queued, yield the error; the return and the
\* finally block follow as after a session failure
enqueue_failed(c) ==
  /\ pc[c] = "processing"
  /\ Emit(c, BackendEvent("error", "Failed to send message to orchestrator"))
  /\ pc' = [pc EXCEPT ![c] = "failed"]
  /\ UNCHANGED <<storeVars, queue, session_info, cancelled, coral_sessions,
                 registered_at, origin, queueVars, agentVars>>

\* lines 495-504: no message within the wait window: yield a keepalive and
\* wait again
Keepalives ==
  Cardinality(UNION {{<<c, i>> : i \in {j \in DOMAIN emitted[c] :
                                           IsKeepalive(emitted[c][j])}} :
                     c \in Streams})

\* mutant: the timeout ends the stream
keepalive_terminates(c) ==
  /\ pc[c] = "waiting"
  /\ queue[c] = <<>>
  /\ Keepalives < MaxKeepalive
  /\ Emit(c, BackendEvent("action", "Waiting for Analysis"))
  /\ remove_connection(c)
  /\ pc' = [pc EXCEPT ![c] = "done"]
  /\ queue' = [queue EXCEPT ![c] = <<>>]
  /\ UNCHANGED <<messages, sessions, user_message_queues, session_info,
                 cancelled, coral_sessions, registered_at, origin, queueVars,
                 agentVars>>

\* mutant: the keepalive is published like an agent event
keepalive_published(c) ==
  /\ pc[c] = "waiting"
  /\ queue[c] = <<>>
  /\ Keepalives < MaxKeepalive
  /\ Emit(c, BackendEvent("action", "Waiting for Analysis"))
  /\ add_message(NewMessage("action"), {c})
  /\ UNCHANGED <<sessions, user_message_queues, pc, session_info, cancelled,
                 coral_sessions, registered_at, origin, queueVars, agentVars>>

keepalive(c) ==
  /\ pc[c] = "waiting"
  /\ queue[c] = <<>>
  /\ Keepalives < MaxKeepalive
  /\ Emit(c, BackendEvent("action", "Waiting for Analysis"))
  /\ UNCHANGED <<storeVars, queue, pc, session_info, cancelled,
                 coral_sessions, registered_at, origin, queueVars, agentVars>>

\* the client disconnects while the generator is suspended: the generator is
\* closed at its suspension point and the finally block runs (506-507)
Suspended == {"creating", "created", "failed", "processing", "waiting",
              "closing"}

client_disconnect(c) ==
  /\ pc[c] \in Suspended
  /\ Cardinality({x \in Streams : cancelled[x]}) < MaxDisconnect
  /\ remove_connection(c)
  /\ pc' = [pc EXCEPT ![c] = "done"]
  /\ queue' = [queue EXCEPT ![c] = <<>>]
  /\ cancelled' = [cancelled EXCEPT ![c] = TRUE]
  /\ UNCHANGED <<messages, sessions, user_message_queues, session_info,
                 emitted, coral_sessions, registered_at, origin, queueVars,
                 agentVars>>

\* ------------------------------------------------ GET /health
health_check ==
  [status |-> "healthy",
   active_connections |-> Len(connections),
   total_messages |-> Len(messages)]

\* ------------------------------------------------ agents/*.py main
AGENT_LOOP_ITERATIONS == 200

AgentKinds == {"orchestrator-agent", "summarizer-agent", "risk-agent",
               "voice-agent"}

\* the loops whose stimulus is get_user_message() (orchestrator_agent.py:59,
\* voice_agent.py:68); summarizer and risk pass the automated literal
PollingKinds == {"orchestrator-agent", "voice-agent"}

\* the loops that test `if (not resp.msgs): continue` (orchestrator_agent.py:60)
TolerantKinds == {"orchestrator-agent"}

\* the FunctionTool objects each loop adds to the tools it gets from the
\* server (summarizer_agent.py:84-89, risk_agent.py:84-89, voice_agent.py:
\* 89-94; orchestrator_agent.py:71 adds none)
local_tools ==
  [a \in AgentKinds |->
     CASE a \in {"summarizer-agent", "risk-agent"} -> {"fetch_pr_info_tool"}
       [] a = "voice-agent" -> {"generate_voice_tool"}
       [] OTHER -> {}]

\* the Coral server starts the agent processes of a session it has created,
\* with the session id in their environment
launch_agent(kind, session_id) ==
  /\ agent.pc = "none"
  /\ session_id \in coral_sessions
  /\ agent' = [kind |-> kind, session |-> session_id, iter |-> 0,
               pc |-> "loop", stimulus |-> None, delayed |-> TRUE]
  /\ UNCHANGED <<storeVars, streamVars, origin, queueVars, polled, toolVars,
                 brokerVars>>

\* prompts.get_user_message (61-84) when the backend answers: the message of
\* the response if has_message, else the automated filler
get_user_message_polled ==
  /\ get_user_message_endpoint(agent.session)
  /\ polled' = polled \cup {<<agent.session, agent.kind>>}
  /\ agent' = [agent EXCEPT !.iter = @ + 1, !.pc = "astep",
                            !.delayed = FALSE,
                            !.stimulus = IF resp'.has_message
                                         THEN resp'.message ELSE AUTOMATED]

\* prompts.get_user_message when the request raises before it is served
get_user_message_failed ==
  /\ agent' = [agent EXCEPT !.iter = @ + 1, !.pc = "astep",
                            !.delayed = FALSE, !.stimulus = AUTOMATED]
  /\ UNCHANGED <<user_message_queues, queueVars, polled>>

\* prompts.get_user_message when the backend runs the handler but the answer
\* does not reach the agent within timeout=2: the except branch (81-82)
\* falls through to the automated filler
get_user_message_unanswered ==
  /\ get_user_message_endpoint(agent.session)
  /\ polled' = polled \cup {<<agent.session, agent.kind>>}
  /\ agent' = [agent EXCEPT !.iter = @ + 1, !.pc = "astep",
                            !.delayed = FALSE, !.stimulus = AUTOMATED]

\* top of the for loop: take the stimulus and call the decision step
agent_iterate ==
  /\ agent.pc = "loop"
  /\ agent.iter < AGENT_LOOP_ITERATIONS
  /\ IF agent.kind \in PollingKinds
     THEN \/ get_user_message_polled
          \/ get_user_message_failed
          \/ get_user_message_unanswered
     ELSE /\ agent' = [agent EXCEPT !.iter = @ + 1, !.pc = "astep",
                                    !.delayed = FALSE,
                                    !.stimulus = AUTOMATED]
          /\ UNCHANGED <<user_message_queues, queueVars, polled>>
  /\ UNCHANGED <<messages, connections, sessions, streamVars, origin, enq,
                 toolVars, brokerVars>>

\* mutant: the for loop is wrapped in `while True`
agent_exit_restarts ==
  /\ agent.pc = "loop"
  /\ agent.iter >= AGENT_LOOP_ITERATIONS
  /\ agent' = [agent EXCEPT !.iter = 0]
  /\ UNCHANGED <<storeVars, streamVars, origin, queueVars, polled, toolVars,
                 brokerVars>>

\* range(AGENT_LOOP_ITERATIONS) is exhausted
agent_exit ==
  /\ agent.pc = "loop"
  /\ agent.iter >= AGENT_LOOP_ITERATIONS
  /\ agent' = [agent EXCEPT !.pc = "done"]
  /\ UNCHANGED <<storeVars, streamVars, origin, queueVars, polled, toolVars,
                 brokerVars>>

\* astep returns a response with at least one message: print, then sleep
astep_reply ==
  /\ agent.pc = "astep"
  /\ agent' = [agent EXCEPT !.pc = "sleep"]
  /\ UNCHANGED <<storeVars, streamVars, origin, queueVars, polled, toolVars,
                 brokerVars>>

\* astep returns a response without messages: the orchestrator continues,
\* the other loops index resp.msgs[0] and die of the IndexError
astep_no_reply ==
  /\ agent.pc = "astep"
  /\ agent' = [agent EXCEPT !.pc = IF agent.kind \in TolerantKinds
                                   THEN "loop" ELSE "crashed"]
  /\ UNCHANGED <<storeVars, streamVars, origin, queueVars, polled, toolVars,
                 brokerVars>>

\* mutant: the exception is caught and the loop goes on
astep_raises_retried ==
  /\ agent.pc = "astep"
  /\ agent' = [agent EXCEPT !.pc = "loop"]
  /\ UNCHANGED <<storeVars, streamVars, origin, queueVars, polled, toolVars,
                 brokerVars>>

\* astep raises: nothing catches it, main ends with the exception
astep_raises ==
  /\ agent.pc = "astep"
  /\ agent' = [agent EXCEPT !.pc = "crashed"]
  /\ UNCHANGED <<storeVars, streamVars, origin, queueVars, polled, toolVars,
                 brokerVars>>

\* sleep(AGENT_SLEEP_TIME) returns
agent_slept ==
  /\ agent.pc = "sleep"
  /\ agent' = [agent EXCEPT !.pc = "loop", !.delayed = TRUE]
  /\ UNCHANGED <<storeVars, streamVars, origin, queueVars, polled, toolVars,
                 brokerVars>>

\* ------------------------------------------------ the message broker
\* The broker of a session (spec 4.1): agents send messages addressed by
\* mentions and collect, with wait_for_mentions, the messages that mention
\* them.  Its code is not among the sources; the agents here only call it.
BrokerAgents == {"orchestrator-agent", "summarizer-agent", "risk-agent"}
Senders == {"orchestrator-agent", "summarizer-agent"}

\* mutant: a message reaches every agent, mentioned or not
Addressed_broadcast(message, agent_name) == TRUE

\* a message is for the agents in its mentions, and for no one if it has none
Addressed(message, agent_name) == agent_name \in message.mentions

\* send_message: the message is appended to the thread
send_message(sender, mentions) ==
  /\ Len(thread) < MaxSent
  /\ thread' = Append(thread, [id |-> Len(thread) + 1, sender |-> sender,
                               mentions |-> mentions])
  /\ UNCHANGED <<storeVars, streamVars, origin, queueVars, agent, polled,
                 toolVars, cursor, received>>

\* the messages for agent_name sent since its last wait_for_mentions
Unread(agent_name) ==
  SelectSeq(SubSeq(thread, cursor[agent_name] + 1, Len(thread)),
            LAMBDA message : Addressed(message, agent_name))

\* mutant: the position of the agent in the thread is not advanced
wait_for_mentions_again(agent_name) ==
  /\ received' = [received EXCEPT ![agent_name] = @ \o Unread(agent_name)]
  /\ UNCHANGED <<storeVars, streamVars, origin, queueVars, agent, polled,
                 toolVars, thread, cursor>>

\* wait_for_mentions: returns the unread messages for the agent in send
\* order, or the empty sequence when the timeout elapses with none
wait_for_mentions(agent_name) ==
  /\ received' = [received EXCEPT ![agent_name] = @ \o Unread(agent_name)]
  /\ cursor' = [cursor EXCEPT ![agent_name] = Len(thread)]
  /\ UNCHANGED <<storeVars, streamVars, origin, queueVars, agent, polled,
                 toolVars, thread>>

SendMessage ==
  \E sender \in Senders, mentions \in SUBSET BrokerAgents :
    send_message(sender, mentions)

WaitForMentions ==
  \E agent_name \in BrokerAgents : wait_for_mentions(agent_name)

\* ---------------------------------------------------------- specification
NoAgent == [kind |-> None, session |-> NoSession, iter |-> 0, pc |-> "none",
            stimulus |-> None, delayed |-> TRUE]

NoResponse == [session |-> NoSession, message |-> None, has_message |-> FALSE]

\* no tool invocation is observed
NoCall == [tool |-> None]
NoResult == [raised |-> FALSE, value |-> <<>>, calls |-> <<>>]

\* the backend after the module is loaded, no agent process started
Constructed ==
  /\ messages = <<>>
  /\ connections = <<>>
  /\ sessions = <<>>
  /\ user_message_queues = <<>>
  /\ queue = [c \in Streams |-> <<>>]
  /\ pc = [c \in Streams |-> "idle"]
  /\ session_info = [c \in Streams |-> NoSession]
  /\ emitted = [c \in Streams |-> <<>>]
  /\ cancelled = [c \in Streams |-> FALSE]
  /\ registered_at = [c \in Streams |-> 0]
  /\ coral_sessions = {}
  /\ origin = <<>>
  /\ enq = [s \in SessionIds |-> <<>>]
  /\ ret = [s \in SessionIds |-> <<>>]
  /\ resp = NoResponse
  /\ agent = NoAgent
  /\ polled = {}
  /\ thread = <<>>
  /\ cursor = [a \in BrokerAgents |-> 0]
  /\ received = [a \in BrokerAgents |-> <<>>]

Init ==
  /\ Constructed
  /\ tool_call = NoCall
  /\ tool_result = NoResult

StreamStep(c) ==
  \/ handle_prompt(c)
  \/ session_created(c)
  \/ session_failed(c)
  \/ return_after_error(c)
  \/ processing_request(c)
  \/ enter_receive_loop(c)
  \/ relay(c)
  \/ end_stream(c)
  \/ keepalive(c)
  \/ client_disconnect(c)

PostAgentMessage ==
  \E session_id \in SessionIds, request_data \in PostedPayloads :
    receive_agent_message(session_id, request_data, {})

PostCallback ==
  \E session_id \in SessionIds, callback \in PostedCallbacks :
    receive_callback(session_id, callback, {})

Next ==
  \/ \E c \in Streams : StreamStep(c)
  \/ PostAgentMessage
  \/ PostCallback

Spec == Init /\ [][Next]_vars

\* ------------------------------------------------ one request at a time
\* the same server when only the first MaxObserved requests are made
NextStream ==
  \/ \E c \in 1..MaxObserved : StreamStep(c)
  \/ PostAgentMessage
  \/ PostCallback

SpecStream == Init /\ [][NextStream]_vars

\* ------------------------------------------------ fan-out with failing puts
\* the same handlers when the put into some of the registered queues raises
PostAgentMessageFault ==
  \E session_id \in SessionIds, request_data \in PostedPayloads,
     fail \in SUBSET Range(connections) \ {{}} :
    receive_agent_message(session_id, request_data, fail)

PostCallbackFault ==
  \E session_id \in SessionIds, callback \in PostedCallbacks,
     fail \in SUBSET Range(connections) \ {{}} :
    receive_callback(session_id, callback, fail)

\* the streams whose clients stay connected and get an event in time
FaultStreamStep(c) ==
  \/ handle_prompt(c)
  \/ session_created(c)
  \/ session_failed(c)
  \/ return_after_error(c)
  \/ processing_request(c)
  \/ enter_receive_loop(c)
  \/ relay(c)
  \/ end_stream(c)

NextFault ==
  \/ \E c \in Streams : FaultStreamStep(c)
  \/ PostAgentMessage
  \/ PostCallback
  \/ PostAgentMessageFault
  \/ PostCallbackFault

SpecFault == Init /\ [][NextFault]_vars

\* ------------------------------------------------ the user-message queues
\* MessageStore.add_user_message and the poll endpoint called directly, for
\* any session id and any message: a formatted one or the empty string
UserMessages == {FormattedMessage(c, m) : c \in Streams, m \in Texts} \cup {""}

Enqueued ==
  Cardinality(UNION {{<<s, i>> : i \in DOMAIN enq[s]} : s \in SessionIds})

AddUserMessage ==
  \E session_id \in SessionIds, message \in UserMessages :
    /\ Enqueued < MaxQueue
    /\ add_user_message(session_id, message)
    /\ enq' = [enq EXCEPT ![session_id] = Append(@, message)]
    /\ UNCHANGED <<messages, connections, sessions, streamVars, origin, ret,
                   resp, agentVars>>

PollOn(session_id) ==
  /\ get_user_message_endpoint(session_id)
  /\ UNCHANGED <<messages, connections, sessions, streamVars, origin, enq,
                 agentVars>>

Poll == \E session_id \in SessionIds : PollOn(session_id)

NextQueue ==
  \/ AddUserMessage
  \/ Poll

SpecQueue == Init /\ [][NextQueue]_vars

\* ------------------------------------------------ the store called directly
\* MessageStore.create_session and add_user_message, for any session id,
\* new or known; nothing is polled, so a message leaves a queue only by
\* create_session.  The data is the info of the session or one naming none
SessionData(session_id) ==
  {[sessionId |-> session_id], [sessionId |-> NoSession]}

StoreMessages == {FormattedMessage(c, m) : c \in 1..MaxObserved, m \in Texts}

AddUserMessageOn(session_id, message) ==
  /\ Enqueued < MaxQueue
  /\ add_user_message(session_id, message)
  /\ enq' = [enq EXCEPT ![session_id] = Append(@, message)]
  /\ UNCHANGED <<messages, connections, sessions, streamVars, origin, ret,
                 resp, agentVars>>

CreateSessionOn(session_id, session_data) ==
  /\ create_session(session_id, session_data)
  /\ UNCHANGED <<messages, connections, streamVars, origin, queueVars,
                 agentVars>>

NextStore ==
  \/ \E session_id \in SessionIds, message \in StoreMessages :
       AddUserMessageOn(session_id, message)
  \/ \E session_id \in SessionIds :
       \E session_data \in SessionData(session_id) :
         CreateSessionOn(session_id, session_data)

SpecStore == Init /\ [][NextStore]_vars

\* ------------------------------------------------ the agent loops
\* the first MaxObserved /prompt requests up to their receive loop, and one
\* agent process of any kind started for a created session
SetupStep(c) ==
  \/ handle_prompt(c)
  \/ session_created(c)
  \/ processing_request(c)
  \/ enter_receive_loop(c)

AgentStep ==
  \/ \E kind \in AgentKinds, session_id \in SessionIds :
       launch_agent(kind, session_id)
  \/ agent_iterate
  \/ agent_exit
  \/ astep_reply
  \/ astep_no_reply
  \/ astep_raises
  \/ agent_slept

NextAgents ==
  \/ \E c \in 1..MaxObserved : SetupStep(c)
  \/ AgentStep

SpecAgents == Init /\ [][NextAgents]_vars

\* the process of a launched agent runs: get_user_message returns within its
\* timeout of 2 s, sleep returns after AGENT_SLEEP_TIME, and the decision
\* step returns or raises
AgentLoop ==
  \/ agent_iterate
  \/ agent_exit
  \/ astep_reply
  \/ astep_no_reply
  \/ astep_raises
  \/ agent_slept

SpecAgentsLive ==
  /\ Init
  /\ [][NextAgents]_vars
  /\ WF_vars(AgentLoop)

\* ------------------------------------------------ the broker call in time
\* create_coral_session is a plain function: requests.post (288-292, timeout
\* 30 s) runs on the thread of the event loop.  Between the request and its
\* answer the generator of stream c is running, not suspended.
post_session_request(c) ==
  /\ pc[c] = "creating"
  /\ pc' = [pc EXCEPT ![c] = "calling"]
  /\ UNCHANGED <<storeVars, queue, session_info, emitted, cancelled,
                 coral_sessions, registered_at, origin, queueVars, agentVars>>

session_answered(c) ==
  /\ pc[c] = "calling"
  /\ store_session(c)

session_refused(c) ==
  /\ pc[c] = "calling"
  /\ report_failure(c)

\* the event loop can resume a task only when no task is running
LoopFree == \A c \in Streams : pc[c] # "calling"

LoopStreamStep(c) ==
  \/ LoopFree /\ handle_prompt(c)
  \/ LoopFree /\ post_session_request(c)
  \/ LoopFree /\ return_after_error(c)
  \/ LoopFree /\ processing_request(c)
  \/ LoopFree /\ enter_receive_loop(c)
  \/ LoopFree /\ relay(c)
  \/ LoopFree /\ end_stream(c)
  \/ LoopFree /\ keepalive(c)
  \/ LoopFree /\ client_disconnect(c)

NextLoop ==
  \/ \E c \in Streams : LoopStreamStep(c)
  \/ LoopFree /\ PostAgentMessage
  \/ LoopFree /\ PostCallback
  \/ LoopFree /\ Poll
  \/ \E c \in Streams : session_answered(c)
  \/ \E c \in Streams : session_refused(c)

SpecLoop == Init /\ [][NextLoop]_vars

\* ------------------------------------------------ shared/backend_tools.py
\* A text built by an f-string is the sequence of its parts.  A result is
\* the value returned or the exception raised, with the calls to the outside
\* (HTTP requests, provider calls, file writes) made on the way.
Returned(value, calls) == [raised |-> FALSE, value |-> value, calls |-> calls]
Raised(exception, calls) ==
  [raised |-> TRUE, value |-> exception, calls |-> calls]

AGENT_MESSAGE_URL == <<"POST http://localhost:8000/agent/message">>
CALLBACK_URL == <<"POST http://localhost:8000/callback">>

\* the answer to requests.post(..., timeout=10): a response with a status
\* code, or an exception raised by the call
StatusCodes == {200, 201, 400, 404, 422, 500, 503}
RequestErrors == {"ConnectTimeout", "ReadTimeout", "ConnectionError"}
HttpAnswers ==
  [exc : {None}, status_code : StatusCodes]
    \cup [exc : RequestErrors, status_code : {0}]

\* str(response.status_code)
CodeText ==
  (200 :> "200") @@ (201 :> "201") @@ (400 :> "400") @@ (404 :> "404")
    @@ (422 :> "422") @@ (500 :> "500") @@ (503 :> "503")

\* mutant: the request is not guarded by try/except
send_action_update_unguarded(agent_id, action, detail, status, http) ==
  IF http.exc # None
  THEN Raised(http.exc, AGENT_MESSAGE_URL)
  ELSE Returned(IF http.status_code = 200
                THEN <<"Action update sent successfully: ", action>>
                ELSE <<"Failed to send action update: ",
                       CodeText[http.status_code]>>,
                AGENT_MESSAGE_URL)

\* each tool: the whole body is inside try; `except Exception as e` returns
\* the text with str(e)
send_action_update(agent_id, action, detail, status, http) ==
  Returned(IF http.exc # None
           THEN <<"Error sending action update: ", http.exc>>
           ELSE IF http.status_code = 200
                THEN <<"Action update sent successfully: ", action>>
                ELSE <<"Failed to send action update: ",
                       CodeText[http.status_code]>>,
           AGENT_MESSAGE_URL)

send_completion(agent_id, summary, risk_report, voice_url, output, http) ==
  Returned(IF http.exc # None
           THEN <<"Error sending completion: ", http.exc>>
           ELSE IF http.status_code = 200
                THEN <<"Completion results sent successfully">>
                ELSE <<"Failed to send completion: ",
                       CodeText[http.status_code]>>,
           AGENT_MESSAGE_URL)

send_error(agent_id, error_message, http) ==
  Returned(IF http.exc # None
           THEN <<"Error sending error message: ", http.exc>>
           ELSE IF http.status_code = 200
                THEN <<"Error message sent successfully">>
                ELSE <<"Failed to send error: ", CodeText[http.status_code]>>,
           AGENT_MESSAGE_URL)

webhook_callback(request_id, summary, risk_report, voice_url, http) ==
  Returned(IF http.exc # None
           THEN <<"Error sending webhook callback: ", http.exc>>
           ELSE IF http.status_code = 200
                THEN <<"Webhook callback sent successfully">>
                ELSE <<"Failed to send webhook callback: ",
                       CodeText[http.status_code]>>,
           CALLBACK_URL)

\* the invocations of the bridge tools by a decision step

BridgeCalls ==
  [tool : {"send_action_update"}, agent_id : AgentKinds, action : {"x"},
   detail : Words, status : {"running", "completed", "failed"},
   http : HttpAnswers]
    \cup [tool : {"send_completion"}, agent_id : {"orchestrator-agent"},
          summary : {"x"}, risk_report : Words, voice_url : Words,
          output : Words, http : HttpAnswers]
    \cup [tool : {"send_error"}, agent_id : AgentKinds, error_message : {"x"},
          http : HttpAnswers]
    \cup [tool : {"webhook_callback"}, request_id : {"1"}, summary : {"x"},
          risk_report : Words, voice_url : Words, http : HttpAnswers]

Pending(tool) == tool_call.tool = tool /\ tool_result = NoResult

call_send_action_update ==
  /\ Pending("send_action_update")
  /\ tool_result' = send_action_update(tool_call.agent_id, tool_call.action,
                                        tool_call.detail, tool_call.status,
                                        tool_call.http)
  /\ UNCHANGED <<storeVars, streamVars, origin, queueVars, agent, polled,
                 tool_call, brokerVars>>

call_send_completion ==
  /\ Pending("send_completion")
  /\ tool_result' = send_completion(tool_call.agent_id, tool_call.summary,
                                     tool_call.risk_report,
                                     tool_call.voice_url, tool_call.output,
                                     tool_call.http)
  /\ UNCHANGED <<storeVars, streamVars, origin, queueVars, agent, polled,
                 tool_call, brokerVars>>

call_send_error ==
  /\ Pending("send_error")
  /\ tool_result' = send_error(tool_call.agent_id, tool_call.error_message,
                                tool_call.http)
  /\ UNCHANGED <<storeVars, streamVars, origin, queueVars, agent, polled,
                 tool_call, brokerVars>>

call_webhook_callback ==
  /\ Pending("webhook_callback")
  /\ tool_result' = webhook_callback(tool_call.request_id, tool_call.summary,
                                      tool_call.risk_report,
                                      tool_call.voice_url, tool_call.http)
  /\ UNCHANGED <<storeVars, streamVars, origin, queueVars, agent, polled,
                 tool_call, brokerVars>>

\* ------------------------------------------------ shared/github_fetcher.py
\* A URL is a sequence of tokens: the one-character tokens ".", "/", "a" (a
\* letter), "7" (a digit) and the literals "https://github", "http://github",
\* "com", "pull", "issues" standing for their characters.
OneChar == {".", "/", "a", "7"}
NoSlash == {".", "a", "7", "com", "pull", "issues"}
Digit == {"7"}

\* length of the longest run of tokens of set S in u from position i on
RECURSIVE Run(_, _, _)
Run(u, i, S) ==
  IF i <= Len(u) /\ u[i] \in S THEN 1 + Run(u, i + 1, S) ELSE 0

\* re.match(r"https://github.com/([^/]+)/([^/]+)/pull/(\d+)", pr_url):
\* anchored at the start only; the "." of the pattern matches any one
\* character; each [^/]+ runs to the next "/"; \d+ takes the digits there
\* are.  The groups when it matches, else no match (every group of a match
\* is non-empty).
NoMatch == [owner |-> <<>>, repo |-> <<>>, pr_num |-> <<>>]

PR_URL_match(pr_url) ==
  LET o == Run(pr_url, 5, NoSlash)
      r == Run(pr_url, 6 + o, NoSlash)
      n == Run(pr_url, 9 + o + r, Digit)
  IN IF /\ Len(pr_url) >= 4
        /\ pr_url[1] = "https://github"
        /\ pr_url[2] \in OneChar
        /\ pr_url[3] = "com"
        /\ pr_url[4] = "/"
        /\ o >= 1
        /\ Len(pr_url) >= 8 + o + r
        /\ pr_url[5 + o] = "/"
        /\ r >= 1
        /\ pr_url[6 + o + r] = "/"
        /\ pr_url[7 + o + r] = "pull"
        /\ pr_url[8 + o + r] = "/"
        /\ n >= 1
     THEN [owner |-> SubSeq(pr_url, 5, 4 + o),
           repo |-> SubSeq(pr_url, 6 + o, 5 + o + r),
           pr_num |-> SubSeq(pr_url, 9 + o + r, 8 + o + r + n)]
     ELSE NoMatch

\* what PyGithub answers to get_repo / get_pull / get_files / comments: the
\* data, or an exception
GithubErrors == {"UnknownObjectException", "RateLimitExceededException",
                 "BadCredentialsException", "ConnectionError"}
GithubAnswers == {"ok"} \cup GithubErrors

\* fetch_pr_info(pr_url, track_action=None)
fetch_pr_info(pr_url, github) ==
  LET match == PR_URL_match(pr_url) IN
  IF match = NoMatch
  THEN Returned(<<"Invalid PR URL format: ">> \o pr_url, <<>>)
  ELSE LET get_repo == <<"get_repo">> \o match.owner \o <<"/">> \o match.repo
       IN IF github = "ok"
          THEN Returned(<<"PR #">> \o match.pr_num \o <<" in ">> \o match.owner
                          \o <<"/">> \o match.repo \o <<"\nTitle: ...">>,
                        <<get_repo>>)
          ELSE Returned(<<"Error fetching PR: ", github>>, <<get_repo>>)

\* summarizer_agent.py:36-38 (the same wrapper in risk_agent.py)
fetch_pr_info_tool(pr_url, github) == fetch_pr_info(pr_url, github)

\* the URLs handed to the tool
PrUrls ==
  {<<>>} \cup
  {host \o dot \o <<"com", "/">> \o owner \o <<"/">> \o repo
     \o <<"/", kind, "/">> \o pr_num \o rest :
     host \in {<<"https://github">>, <<"http://github">>},
     dot \in {<<".">>, <<"a">>, <<>>},
     owner \in {<<"a">>, <<>>},
     repo \in {<<"a">>, <<"a", ".", "a">>},
     kind \in {"pull", "issues"},
     pr_num \in {<<"7">>, <<"7", "7">>, <<"a">>, <<>>},
     rest \in {<<>>, <<"/", "a">>}}

FetchCalls ==
  [tool : {"fetch_pr_info_tool"}, pr_url : PrUrls, github : GithubAnswers]

call_fetch_pr_info_tool ==
  /\ Pending("fetch_pr_info_tool")
  /\ tool_result' = fetch_pr_info_tool(tool_call.pr_url, tool_call.github)
  /\ UNCHANGED <<storeVars, streamVars, origin, queueVars, agent, polled,
                 tool_call, brokerVars>>

\* ------------------------------------------------ shared/voice_over.py
\* `if not x` for x a string or None
Truthy(x) == x # None /\ x # ""

\* os.getenv of the variables generate_voice_over reads
VoiceEnv ==
  [ELEVENLABS_API_KEY : {None, "", "key"},
   ELEVENLABS_VOICE_ID : {None, "", "voice"},
   ELEVENLABS_STABILITY : {None, "0.5", "high"}]

\* mkdir and write_bytes succeed or raise
DiskAnswers == {"ok", "OSError"}

\* lines 40-108: after the credential check
synthesize(text, voice_id, env, http, disk) ==
  LET voice == IF Truthy(voice_id) THEN voice_id
               ELSE env.ELEVENLABS_VOICE_ID
      post == <<"POST /text-to-speech/", voice>>
      voice_path == <<"voice_over_outputs/voice_", voice, "_", "time", ".mp3">>
  IN IF ~Truthy(voice)
     THEN Raised(<<"Voice ID not provided. Set ELEVENLABS_VOICE_ID or pass ",
                   "voice_id explicitly.">>, <<>>)
     ELSE IF env.ELEVENLABS_STABILITY \notin {None, "", "0.5"}
     THEN Raised(<<"could not convert string to float: ",
                   env.ELEVENLABS_STABILITY>>, <<>>)
     ELSE IF http.exc # None
     THEN Raised(<<"Voice-over request failed: ", http.exc>>, <<post>>)
     ELSE IF http.status_code >= 400
     THEN Raised(<<"ElevenLabs API error ", CodeText[http.status_code]>>,
                 <<post>>)
     ELSE IF disk # "ok"
     THEN Raised(<<disk>>, <<post>>)
     ELSE Returned([voice_path |-> voice_path],
                   <<post, <<"write_bytes">> \o voice_path>>)

\* mutant: the credential is not checked
generate_voice_over_unchecked(text, voice_id, env, http, disk) ==
  synthesize(text, voice_id, env, http, disk)

\* generate_voice_over (30-108): the result dict, or the exception raised
generate_voice_over(text, voice_id, env, http, disk) ==
  IF ~Truthy(env.ELEVENLABS_API_KEY)
  THEN Raised(<<"ELEVENLABS_API_KEY not configured.">>, <<>>)
  ELSE synthesize(text, voice_id, env, http, disk)

\* voice_agent.py:36-43: every exception becomes a text
generate_voice_tool(text, voice_id, env, http, disk) ==
  LET result == generate_voice_over(text, voice_id, env, http, disk) IN
  IF result.raised
  THEN Returned(<<"Voice generation failed: ">> \o result.value, result.calls)
  ELSE Returned(<<"Voice-over generated successfully. File saved at: ">>
                  \o result.value.voice_path, result.calls)

VoiceCalls ==
  [tool : {"generate_voice_tool"}, text : {"x"}, voice_id : {None, "", "v1"},
   env : VoiceEnv, http : HttpAnswers, disk : DiskAnswers]

call_generate_voice_tool ==
  /\ Pending("generate_voice_tool")
  /\ tool_result' = generate_voice_tool(tool_call.text, tool_call.voice_id,
                                         tool_call.env, tool_call.http,
                                         tool_call.disk)
  /\ UNCHANGED <<storeVars, streamVars, origin, queueVars, agent, polled,
                 tool_call, brokerVars>>

\* ------------------------------------------------ POST /agent/message, once
\* one request with any payload, on the server as constructed
AgentMessageCalls ==
  [tool : {"receive_agent_message"}, session_id : SessionIds,
   request_data : Payloads]

call_receive_agent_message ==
  /\ Pending("receive_agent_message")
  /\ publish_agent_message(tool_call.session_id, tool_call.request_data, {})
  /\ tool_result' =
       Returned(agent_message_response(tool_call.request_data), <<>>)
  /\ UNCHANGED <<tool_call, brokerVars>>

\* ------------------------------------------------ the tools, one call each
\* one invocation of a tool with any arguments and any answer of the remote
\* side
InitTools ==
  /\ Constructed
  /\ tool_call \in BridgeCalls \cup FetchCalls \cup VoiceCalls
                    \cup AgentMessageCalls
  /\ tool_result = NoResult

NextTools ==
  \/ call_send_action_update
  \/ call_send_completion
  \/ call_send_error
  \/ call_webhook_callback
  \/ call_fetch_pr_info_tool
  \/ call_generate_voice_tool
  \/ call_receive_agent_message

SpecTools == InitTools /\ [][NextTools]_vars

\* ------------------------------------------------ one callback, observed
\* the streams of clients that get their events in time, and one POST
\* /callback, with any body, whose response is recorded
CallbackCalls ==
  [tool : {"receive_callback"}, session_id : SessionIds,
   callback : CallbackMessages]

call_receive_callback ==
  /\ Pending("receive_callback")
  /\ publish_callback(tool_call.session_id, tool_call.callback, {})
  /\ tool_result' = Returned(callback_response(tool_call.callback), <<>>)
  /\ UNCHANGED <<tool_call, brokerVars>>

InitCallback ==
  /\ Constructed
  /\ tool_call \in CallbackCalls
  /\ tool_result = NoResult

NextCallback ==
  \/ \E c \in Streams : FaultStreamStep(c)
  \/ \E c \in Streams : client_disconnect(c)
  \/ call_receive_callback

SpecCallback == InitCallback /\ [][NextCallback]_vars

\* ------------------------------------------------ one agent payload, observed
\* the payloads that carry agent_id, with any of the other keys of the
\* send_completion schema (202-237) present or not; the payload built by
\* backend_tools.send_completion (79-88) has none of them at its top level
AgentIdPayloads ==
  [agent_id : {TRUE}, status : {None, "running", "completed", "failed"},
   summary : BOOLEAN, error : BOOLEAN, risk_report : BOOLEAN,
   voice_url : BOOLEAN, output : BOOLEAN]

AgentIdCalls ==
  [tool : {"receive_agent_message"}, session_id : SessionIds,
   request_data : AgentIdPayloads]

InitCompletion ==
  /\ Constructed
  /\ tool_call \in AgentIdCalls
  /\ tool_result = NoResult

\* the streams of clients that stay connected, and the one POST /agent/message
NextCompletion ==
  \/ \E c \in 1..MaxObserved : FaultStreamStep(c)
  \/ call_receive_agent_message

SpecCompletion == InitCompletion /\ [][NextCompletion]_vars

\* ------------------------------------------------ one callback and its id
\* one POST /callback whose request_id is the id of the first request or of
\* none, on any path, and the streams of clients that stay connected
RequestIdCalls ==
  [tool : {"receive_callback"}, session_id : SessionIds,
   callback : RequestIdCallbacks]

InitRequestId ==
  /\ Constructed
  /\ tool_call \in RequestIdCalls
  /\ tool_result = NoResult

NextRequestId ==
  \/ \E c \in Streams : FaultStreamStep(c)
  \/ call_receive_callback

SpecRequestId == InitRequestId /\ [][NextRequestId]_vars

\* ------------------------------------------------ one queue call, observed
\* the requests up to their receive loop, callbacks posted, and one call of
\* add_user_message or of the poll endpoint, at any moment, for any session
\* id, known or not
QueueCalls ==
  [tool : {"add_user_message"}, session_id : SessionIds,
   message : StoreMessages]
    \cup [tool : {"get_user_message_endpoint"}, session_id : SessionIds]

\* add_user_message returns None
call_add_user_message ==
  /\ Pending("add_user_message")
  /\ add_user_message(tool_call.session_id, tool_call.message)
  /\ enq' = [enq EXCEPT ![tool_call.session_id] =
               Append(@, tool_call.message)]
  /\ tool_result' = Returned(<<None>>, <<>>)
  /\ UNCHANGED <<messages, connections, sessions, streamVars, origin, ret,
                 resp, agent, polled, tool_call, brokerVars>>

\* the response of the endpoint is recorded in resp
call_get_user_message_endpoint ==
  /\ Pending("get_user_message_endpoint")
  /\ get_user_message_endpoint(tool_call.session_id)
  /\ tool_result' = Returned(<<resp'.message>>, <<>>)
  /\ UNCHANGED <<messages, connections, sessions, streamVars, origin, enq,
                 agent, polled, tool_call, brokerVars>>

InitIsolation ==
  /\ Constructed
  /\ tool_call \in QueueCalls
  /\ tool_result = NoResult

NextIsolation ==
  \/ \E c \in Streams : SetupStep(c)
  \/ PostCallback
  \/ call_add_user_message
  \/ call_get_user_message_endpoint

SpecIsolation == InitIsolation /\ [][NextIsolation]_vars

\* ------------------------------------------------ every way out of a stream
\* the streams with each of their exits: the terminal event relayed, the
\* session not created, the user message not queued, the client gone; and
\* callbacks posted at any moment
ExitStreamStep(c) ==
  \/ FaultStreamStep(c)
  \/ enqueue_failed(c)
  \/ client_disconnect(c)

NextExit ==
  \/ \E c \in Streams : ExitStreamStep(c)
  \/ PostCallback

SpecExit == Init /\ [][NextExit]_vars

\* ------------------------------------------------ the events of the backend
\* the streams of clients that stay connected, with every event the stream
\* generates by itself: the three stages, both setup errors and the
\* keepalive; and callbacks posted at any moment
SynthStreamStep(c) ==
  \/ FaultStreamStep(c)
  \/ enqueue_failed(c)
  \/ keepalive(c)

NextSynth ==
  \/ \E c \in Streams : SynthStreamStep(c)
  \/ PostCallback

SpecSynth == Init /\ [][NextSynth]_vars

\* ------------------------------------------------ one health check, observed
\* the server with its streams and its two ingress endpoints, and one GET
\* /health at any moment, whose response is recorded
HealthCalls == {[tool |-> "health_check"]}

call_health_check ==
  /\ Pending("health_check")
  /\ tool_result' = Returned(health_check, <<>>)
  /\ UNCHANGED <<storeVars, streamVars, origin, queueVars, agent, polled,
                 tool_call, brokerVars>>

InitHealth ==
  /\ Constructed
  /\ tool_call \in HealthCalls
  /\ tool_result = NoResult

NextHealth ==
  \/ \E c \in Streams : StreamStep(c)
  \/ PostAgentMessage
  \/ PostCallback
  \/ call_health_check

SpecHealth == InitHealth /\ [][NextHealth]_vars

\* ------------------------------------------------ the broker alone
NextBroker ==
  \/ SendMessage
  \/ WaitForMentions

SpecBroker == Init /\ [][NextBroker]_vars

\* ------------------------------------------------ one request, scheduled
\* The task of a stream is resumed whenever it can take a step: the broker
\* call returns (requests.post has timeout=30), the server asks the generator
\* of a connected client for its next chunk, and queue.get() returns when
\* the queue holds a message.  Requests, posts and client disconnects
\* happen or not.
StreamTask(c) ==
  \/ session_created(c)
  \/ session_failed(c)
  \/ return_after_error(c)
  \/ processing_request(c)
  \/ enter_receive_loop(c)
  \/ relay(c)
  \/ end_stream(c)

NextLive ==
  \/ \E c \in 1..MaxObserved : FaultStreamStep(c)
  \/ \E c \in 1..MaxObserved : client_disconnect(c)
  \/ PostAgentMessage
  \/ PostCallback

SpecLive ==
  /\ Init
  /\ [][NextLive]_vars
  /\ \A c \in 1..MaxObserved : WF_vars(StreamTask(c))

\* ================================================================ claims
\* the agent events stream c has relayed, in emission order
Relayed(c) == SelectSeq(emitted[c], LAMBDA e : e.source = "agent")

\* the log from the registration of stream c's queue on
PublishedSince(c) == SubSeq(messages, registered_at[c] + 1, Len(messages))

\* index of the first terminal event of a sequence of messages, 0 if none
FirstTerminal(seq) ==
  IF \E i \in 1..Len(seq) : seq[i].event \in Terminal
  THEN CHOOSE i \in 1..Len(seq) :
         /\ seq[i].event \in Terminal
         /\ \A j \in 1..(i - 1) : seq[j].event \notin Terminal
  ELSE 0

\* the stream went through its receive loop and ended there by itself
EndedInLoop(c) ==
  pc[c] = "closing" \/ (pc[c] = "done" /\ ~cancelled[c] /\ c \in coral_sessions)

\* C1: when the events published for a stream are zero or more `action`
\* events followed by a `complete` event, the stream relays those actions in
\* publish order, then the complete event, then closes; nothing published
\* later is delivered on it.
C1_TerminalSemantics ==
  \A c \in Streams :
    LET L == PublishedSince(c)
        R == Relayed(c)
        k == FirstTerminal(L)
    IN (pc[c] # "idle" /\ k > 0 /\ L[k].event = "complete") =>
         /\ Len(R) <= k
         /\ \A i \in 1..Len(R) :
              R[i].id = L[i].id /\ R[i].event = L[i].event
         /\ EndedInLoop(c) => Len(R) = k /\ Last(emitted[c]).id = L[k].id

C1_Witness ==
  \E c \in Streams :
    /\ pc[c] = "done" /\ ~cancelled[c]
    /\ Len(Relayed(c)) = 2
    /\ Relayed(c)[1].event = "action"
    /\ Relayed(c)[2].event = "complete"
    /\ Last(emitted[c]).event = "complete"

\* C2: an event posted to /agent/message or /callback for session A is
\* put only into the queue of the stream of session A, never into the queue
\* of the stream of a different session B.
PostedFor(session_id) ==
  \/ \E request_data \in PostedPayloads :
       receive_agent_message(session_id, request_data, {})
  \/ \E callback \in PostedCallbacks :
       receive_callback(session_id, callback, {})

C2_SessionScoped ==
  [][\A session_id \in SessionIds, c \in Streams :
       (PostedFor(session_id) /\ session_info[c] \notin {session_id, NoSession})
         => queue'[c] = queue[c]]_vars

\* C3: the only agent loop that polls GET /session/{id}/message is the
\* orchestrator loop.
C3_SingleConsumer ==
  \A x \in polled : x[2] = "orchestrator-agent"

\* C4: the user-message queue of each session is FIFO: what the polls have
\* returned, followed by what is still queued, is what was enqueued, in
\* enqueue order; a response with has_message carries the message popped
\* last, a response without one carries None.
QueueOf(session_id) ==
  IF session_id \in DOMAIN user_message_queues
  THEN user_message_queues[session_id] ELSE <<>>

C4_FifoQueue ==
  /\ \A s \in SessionIds : ret[s] \o QueueOf(s) = enq[s]
  /\ resp.has_message =>
       /\ ret[resp.session] # <<>>
       /\ resp.message = Last(ret[resp.session])
  /\ ~resp.has_message => resp.message = None

C4_Witness ==
  \E s \in SessionIds :
    /\ Len(ret[s]) = 3
    /\ ret[s][1] # ret[s][2]
    /\ QueueOf(s) = <<>>
    /\ resp = [session |-> s, message |-> None, has_message |-> FALSE]

\* C5: a payload of shape {agent_id, action, detail, status} posted to
\* /agent/message yields a non-terminal event, for every status.
C5_ActionUpdateNonTerminal ==
  [][\A session_id \in SessionIds, request_data \in ActionUpdatePayloads :
       receive_agent_message(session_id, request_data, {})
         => Last(messages').event \notin Terminal]_vars

\* C6: every `complete` event in the log was produced by /callback.
C6_SingleTerminalPath ==
  \A i \in 1..Len(messages) :
    messages[i].event = "complete" => origin[i] = "callback"

\* C7: a stream emits at most one terminal event and it is the last event
\* of the stream; once it is emitted the stream is ending or has ended.
C7_TerminalIsLast ==
  \A c \in Streams :
    /\ \A i \in 1..Len(emitted[c]) :
         emitted[c][i].event \in Terminal => i = Len(emitted[c])
    /\ (emitted[c] # <<>> /\ Last(emitted[c]).event \in Terminal)
         => pc[c] \in {"failed", "closing", "done"}

C7_Witness ==
  \E c \in Streams :
    /\ pc[c] = "closing"
    /\ Last(emitted[c]).event = "error"
    /\ Last(emitted[c]).source = "agent"
    /\ queue[c] # <<>>

\* C8: a stream that is waiting with an empty queue and emits an event
\* emits an `action` keepalive, keeps waiting and keeps its connection
\* registered; a waiting stream ends only when its client disconnects or
\* after a terminal event.
C8_Keepalive ==
  [][\A c \in Streams :
       /\ (pc[c] = "waiting" /\ queue[c] = <<>> /\ emitted'[c] # emitted[c])
            => /\ emitted'[c] =
                    Append(emitted[c],
                           BackendEvent("action", "Waiting for Analysis"))
               /\ pc'[c] = "waiting"
               /\ c \in Range(connections')
       /\ (pc[c] = "waiting" /\ pc'[c] = "done") => cancelled'[c]]_vars

C8_Witness ==
  \E c \in Streams :
    /\ pc[c] = "waiting"
    /\ c \in Range(connections)
    /\ Len(emitted[c]) >= 2
    /\ IsKeepalive(emitted[c][Len(emitted[c])])
    /\ IsKeepalive(emitted[c][Len(emitted[c]) - 1])

\* C9: for every stream, the events it has relayed followed by the events
\* in its queue are consecutive entries of the log, in log order.
Delivered(c) ==
  [i \in 1..(Len(Relayed(c)) + Len(queue[c])) |->
     IF i <= Len(Relayed(c))
     THEN [event |-> Relayed(c)[i].event, id |-> Relayed(c)[i].id]
     ELSE queue[c][i - Len(Relayed(c))]]

C9_PublishOrder ==
  \A c \in Streams :
    \A i \in 1..Len(Delivered(c)) :
      /\ Delivered(c)[i].id \in 1..Len(messages)
      /\ Delivered(c)[i] = messages[Delivered(c)[i].id]
      /\ i > 1 => Delivered(c)[i].id = Delivered(c)[i - 1].id + 1

C9_Witness ==
  \E c, d \in Streams :
    /\ c # d
    /\ Len(Relayed(c)) = 2
    /\ Len(Relayed(d)) = 2
    /\ Relayed(c)[1].id = 1
    /\ Relayed(d)[2].id = 2

\* C10: when puts fail during add_message, the handler still completes, the
\* message is in the log, exactly the failing queues leave the connection
\* list (the others keep their order), every other registered queue gets
\* the message and the failing queues do not.
FanOut(fail) ==
  \/ \E session_id \in SessionIds, request_data \in PostedPayloads :
       receive_agent_message(session_id, request_data, fail)
  \/ \E session_id \in SessionIds, callback \in PostedCallbacks :
       receive_callback(session_id, callback, fail)

C10_FanOutPrune ==
  [][\A fail \in SUBSET Range(connections) \ {{}} :
       FanOut(fail) =>
         /\ Len(messages') = Len(messages) + 1
         /\ Len(origin') = Len(messages')
         /\ connections' = SelectSeq(connections, LAMBDA q : q \notin fail)
         /\ \A c \in Range(connections) \ fail :
              queue'[c] = Append(queue[c], Last(messages'))
         /\ \A c \in fail : queue'[c] = queue[c]]_vars

C10_Witness ==
  \E c, d \in Streams :
    /\ pc[c] = "waiting"
    /\ c \notin Range(connections)
    /\ queue[c] = <<>>
    /\ Relayed(c) = <<>>
    /\ pc[d] = "waiting"
    /\ d \in Range(connections)
    /\ Len(connections) = 1
    /\ registered_at[c] = 0
    /\ registered_at[d] = 0
    /\ Len(messages) = 1
    /\ queue[d] = messages

\* C11: a stream whose session the broker did not create has emitted at most
\* 'Creating Session' and then one error event and nothing else, never gets
\* past the failure, stores no session and enqueues no user message; when it
\* has ended its connection is deregistered.
SessionFailure == <<BackendEvent("action", "Creating Session"),
                    BackendEvent("error", "Failed to create agent session")>>

C11_SessionFailure ==
  \A c \in Streams :
    c \notin coral_sessions =>
      /\ pc[c] \in {"idle", "creating", "failed", "done"}
      /\ emitted[c] = SubSeq(SessionFailure, 1, Len(emitted[c]))
      /\ pc[c] = "failed" => emitted[c] = SessionFailure
      /\ (pc[c] = "done" /\ ~cancelled[c]) => emitted[c] = SessionFailure
      /\ pc[c] = "done" => c \notin Range(connections)
      /\ c \notin DOMAIN sessions
      /\ QueueOf(c) = <<>>
      /\ enq[c] = <<>>

C11_Witness ==
  \E c \in Streams :
    /\ pc[c] = "done"
    /\ ~cancelled[c]
    /\ c \notin coral_sessions
    /\ emitted[c] = SessionFailure
    /\ registered_at[c] < Len(messages)
    /\ connections = <<>>
    /\ sessions = <<>>

\* C12: the stages of a request are ordered and a step never moves a request
\* to an earlier stage; from 'Session Created' on the session exists at the
\* broker and in the store; in the receive loop the user message of the
\* request has been enqueued for its session; a stream that has relayed an
\* agent event had enqueued its message before; messages are enqueued only
\* for sessions that were created.
Stage(p) ==
  CASE p = "idle" -> 0
    [] p = "creating" -> 1
    [] p = "created" -> 2
    [] p = "processing" -> 3
    [] p = "waiting" -> 4
    [] p \in {"failed", "closing"} -> 5
    [] p = "done" -> 6

Queued(c) ==
  \E i \in 1..Len(enq[c]) : \E m \in Texts : enq[c][i] = FormattedMessage(c, m)

C12_StageOrder ==
  [][\A c \in Streams :
       /\ Stage(pc'[c]) >= Stage(pc[c])
       /\ pc'[c] \in {"created", "processing", "waiting", "closing"}
            => /\ session_info'[c] = c
               /\ c \in coral_sessions'
               /\ c \in DOMAIN sessions'
       /\ pc'[c] \in {"waiting", "closing"} => Queued(c)'
       /\ Relayed(c)' # <<>> => Queued(c)'
       /\ enq'[c] # <<>> => (c \in coral_sessions' /\ c \in DOMAIN sessions')
       /\ enq'[c] # enq[c] => (pc[c] = "processing" /\ Relayed(c) = <<>>)]_vars

C12_Witness ==
  \E c \in Streams :
    /\ pc[c] = "done"
    /\ ~cancelled[c]
    /\ Len(emitted[c]) = 4
    /\ Relayed(c) # <<>>
    /\ registered_at[c] = 0
    /\ Relayed(c)[1].id = 1
    /\ Queued(c)

\* C13: in every agent loop, a decision step that returns no reply message
\* is followed by the next iteration of the loop.
C13_NoReplyTolerated ==
  [][astep_no_reply => agent'.pc = "loop"]_vars

\* C14: every decision step after the first of a loop is invoked with the
\* inter-iteration delay applied since the previous one.
C14_DelayBetweenSteps ==
  [][agent_iterate => agent.delayed]_vars

\* C15: while a request is inside the broker call, some step of another
\* task of the server (another stream, a handler) is possible.
C15_CooperativeWaits ==
  \A c \in Streams :
    pc[c] = "calling" => ENABLED (NextLoop /\ pc'[c] = "calling")

\* C16: every invocation of a bridge tool returns a text and raises
\* nothing, whatever the answer to its HTTP request; when the request raised
\* the text names the failure.
IsText(value) ==
  /\ Len(value) >= 1
  /\ \A i \in 1..Len(value) : value[i] \in STRING

BridgeTools ==
  {"send_action_update", "send_completion", "send_error", "webhook_callback"}

C16_BridgeToolsReturnText ==
  (tool_call.tool \in BridgeTools /\ tool_result # NoResult) =>
    /\ ~tool_result.raised
    /\ IsText(tool_result.value)
    /\ tool_call.http.exc # None =>
         /\ Len(tool_result.value) = 2
         /\ tool_result.value[2] = tool_call.http.exc

C16_Witness ==
  /\ tool_call.tool = "webhook_callback"
  /\ tool_call.http.exc = "ReadTimeout"
  /\ ~tool_result.raised
  /\ tool_result.value = <<"Error sending webhook callback: ", "ReadTimeout">>

\* C17: fetch_pr_info_tool returns a text and raises nothing for every URL
\* and every answer of the provider; for a URL that is not of the form
\* https://github.com/<owner>/<repo>/pull/<number> (whatever follows the
\* number) the text is the 'Invalid PR URL format' diagnostic and no
\* provider call is made.
HasPullRequestShape(pr_url) ==
  \E o, r, n \in 1..Len(pr_url) :
    /\ Len(pr_url) >= 8 + o + r + n
    /\ SubSeq(pr_url, 1, 4) = <<"https://github", ".", "com", "/">>
    /\ \A i \in 5..(4 + o) : pr_url[i] \in NoSlash
    /\ pr_url[5 + o] = "/"
    /\ \A i \in (6 + o)..(5 + o + r) : pr_url[i] \in NoSlash
    /\ SubSeq(pr_url, 6 + o + r, 8 + o + r) = <<"/", "pull", "/">>
    /\ \A i \in (9 + o + r)..(8 + o + r + n) : pr_url[i] \in Digit

C17_FetchValidatesUrl ==
  (tool_call.tool = "fetch_pr_info_tool" /\ tool_result # NoResult) =>
    /\ ~tool_result.raised
    /\ IsText(tool_result.value)
    /\ ~HasPullRequestShape(tool_call.pr_url) =>
         /\ tool_result.value = <<"Invalid PR URL format: ">> \o tool_call.pr_url
         /\ tool_result.calls = <<>>

\* C18: generate_voice_tool returns a text and raises nothing; without a
\* credential, or without a voice id (argument and configuration both
\* missing), the text is a failure text naming what is missing, no HTTP
\* request is made and no file is written; any call to the outside has both.
HasCredential == Truthy(tool_call.env.ELEVENLABS_API_KEY)
HasVoice ==
  Truthy(tool_call.voice_id) \/ Truthy(tool_call.env.ELEVENLABS_VOICE_ID)

C18_VoiceFailsClosed ==
  (tool_call.tool = "generate_voice_tool" /\ tool_result # NoResult) =>
    /\ ~tool_result.raised
    /\ IsText(tool_result.value)
    /\ ~HasCredential =>
         /\ tool_result.calls = <<>>
         /\ tool_result.value = <<"Voice generation failed: ",
                                   "ELEVENLABS_API_KEY not configured.">>
    /\ (HasCredential /\ ~HasVoice) =>
         /\ tool_result.calls = <<>>
         /\ tool_result.value[1] = "Voice generation failed: "
         /\ tool_result.value[2] =
              "Voice ID not provided. Set ELEVENLABS_VOICE_ID or pass "
    /\ tool_result.calls # <<>> => (HasCredential /\ HasVoice)

C18_Witness ==
  /\ tool_call.tool = "generate_voice_tool"
  /\ tool_call.env.ELEVENLABS_API_KEY = None
  /\ tool_call.voice_id = "v1"
  /\ tool_call.http.status_code = 200
  /\ tool_result.value = <<"Voice generation failed: ",
                            "ELEVENLABS_API_KEY not configured.">>
  /\ tool_result.calls = <<>>

\* C19: a POST /callback, whatever its summary, risk_report, voice_url and
\* output, appends exactly one message of type complete to the log, puts
\* that message once at the end of the queue of every registered connection
\* and of no other, leaves the connection list alone, and answers
\* {status: "received"}.
C19_CallbackComplete ==
  [][call_receive_callback =>
       /\ messages' = Append(messages, [event |-> "complete",
                                        id |-> Len(messages) + 1])
       /\ \A c \in Streams :
            queue'[c] = IF c \in Range(connections)
                        THEN Append(queue[c], Last(messages'))
                        ELSE queue[c]
       /\ connections' = connections
       /\ ~tool_result'.raised
       /\ tool_result'.value = <<<<"status", "received">>>>]_vars

C19_Witness ==
  /\ tool_call.tool = "receive_callback"
  /\ tool_call.callback.summary = ""
  /\ tool_call.callback.output = ""
  /\ tool_result # NoResult
  /\ Len(connections) = 2
  /\ \A c \in Range(connections) : queue[c] = <<messages[1]>>
  /\ messages[1].event = "complete"

\* C20: on every tick of the orchestrator loop the stimulus given to the
\* decision step is the head of the session's user-message queue when the
\* queue is not empty, and exactly that message leaves the queue; it is the
\* automated filler and the queue is untouched when the queue is empty.  A
\* message leaves a queue only as the stimulus of an orchestrator tick.
C20_TickStimulus ==
  [][/\ (agent_iterate /\ agent.kind = "orchestrator-agent") =>
          IF QueueOf(agent.session) # <<>>
          THEN /\ agent'.stimulus = Head(QueueOf(agent.session))
               /\ QueueOf(agent.session)' = Tail(QueueOf(agent.session))
          ELSE /\ agent'.stimulus = AUTOMATED
               /\ user_message_queues' = user_message_queues
     /\ \A s \in SessionIds :
          Len(QueueOf(s)') < Len(QueueOf(s)) =>
            /\ agent'.kind = "orchestrator-agent"
            /\ agent'.pc = "astep"
            /\ agent'.stimulus = Head(QueueOf(s))]_vars

\* C21: the stored sessions are exactly the sessions of the requests whose
\* session creation succeeded, one each and no two requests with the same
\* one; for each of them at most one user message was ever enqueued (none
\* before the request reaches its enqueue step, one from its receive loop
\* on), so a session's queue never holds more than one message.
Succeeded == {c \in Streams : session_info[c] # NoSession}

C21_OneSessionPerRequest ==
  /\ DOMAIN sessions = {session_info[c] : c \in Succeeded}
  /\ DOMAIN user_message_queues = DOMAIN sessions
  /\ \A c, d \in Succeeded : session_info[c] = session_info[d] => c = d
  /\ \A c \in Streams :
       pc[c] \in {"created", "processing", "waiting", "closing"}
         => c \in Succeeded
  /\ \A c \in Succeeded :
       /\ Len(enq[session_info[c]]) <= 1
       /\ pc[c] \in {"created", "processing"} => enq[session_info[c]] = <<>>
       /\ pc[c] \in {"waiting", "closing"} => Len(enq[session_info[c]]) = 1
  /\ \A s \in SessionIds : Len(QueueOf(s)) <= 1
  /\ \A s \in SessionIds : enq[s] # <<>> => s \in DOMAIN sessions

C21_Witness ==
  /\ Cardinality(DOMAIN sessions) = 2
  /\ \A c \in Streams :
       /\ pc[c] = "waiting"
       /\ Len(QueueOf(session_info[c])) = 1
  /\ QueueOf(session_info[1]) # QueueOf(session_info[2])

\* C22: every event in the message log and every event emitted on a
\* stream, relayed or generated by the backend, has its type in
\* {action, error, complete}; so has the event of every payload.
C22_EventTypes ==
  /\ \A i \in DOMAIN messages : messages[i].event \in EventTypes
  /\ \A c \in Streams :
       \A i \in DOMAIN emitted[c] : emitted[c][i].event \in EventTypes
  /\ \A c \in Streams :
       \A i \in DOMAIN queue[c] : queue[c][i].event \in EventTypes
  /\ \A request_data \in Payloads : EventTypeOf(request_data) \in EventTypes
  /\ \A callback \in CallbackMessages : callback_event(callback) \in EventTypes

C22_Witness ==
  \E c \in Streams :
    /\ Len(Relayed(c)) = 2
    /\ Relayed(c)[1].event = "action"
    /\ Relayed(c)[2].event = "error"
    /\ \E i \in DOMAIN emitted[c] : IsKeepalive(emitted[c][i])
    /\ pc[c] = "done"

\* C23: in every state the active_connections of /health is the number of
\* streams that have started and not ended and its total_messages is the
\* number of events accepted by /agent/message and /callback; a call of
\* /health answers with these values and changes nothing in the server.
ActiveStreams == {c \in Streams : pc[c] \notin {"idle", "done"}}

HealthExact ==
  /\ health_check.status = "healthy"
  /\ health_check.active_connections = Cardinality(ActiveStreams)
  /\ health_check.total_messages = Len(origin)

C23_HealthCounts ==
  /\ []HealthExact
  /\ [][call_health_check =>
          /\ tool_result'.value = health_check
          /\ ~tool_result'.raised
          /\ <<storeVars, streamVars, origin, queueVars>>' =
               <<storeVars, streamVars, origin, queueVars>>]_vars

C23_Witness ==
  /\ tool_call.tool = "health_check"
  /\ tool_result.value = [status |-> "healthy", active_connections |-> 1,
                          total_messages |-> 2]
  /\ Cardinality(ActiveStreams) = 1
  /\ \E c \in Streams : pc[c] = "done"
  /\ Len(messages) = 2

\* C24: what wait_for_mentions has returned to agent A is, at any time, the
\* messages mentioning A among some first part of the thread: each once, in
\* send order, none that does not mention A; and after a wait_for_mentions(A)
\* it is all the messages mentioning A sent so far.
MentionsOf(agent_name, seq) ==
  SelectSeq(seq, LAMBDA message : agent_name \in message.mentions)

DeliveredInOrder ==
  \A agent_name \in BrokerAgents :
    \E k \in 0..Len(thread) :
      received[agent_name] = MentionsOf(agent_name, SubSeq(thread, 1, k))

C24_MentionDelivery ==
  /\ []DeliveredInOrder
  /\ [][\A agent_name \in BrokerAgents :
          wait_for_mentions(agent_name) =>
            received'[agent_name] = MentionsOf(agent_name, thread)]_vars

C24_Witness ==
  /\ Len(thread) = 2
  /\ thread[1].mentions = {"summarizer-agent", "risk-agent"}
  /\ thread[2].mentions = {"summarizer-agent"}
  /\ received["summarizer-agent"] = thread
  /\ received["risk-agent"] = <<thread[1]>>
  /\ received["orchestrator-agent"] = <<>>
  /\ \A agent_name \in BrokerAgents : cursor[agent_name] = 2

\* C25: no message sent with an empty mentions list is ever returned by a
\* wait_for_mentions of any agent.
C25_EmptyMentionsDropped ==
  \A agent_name \in BrokerAgents :
    \A i \in DOMAIN received[agent_name] :
      received[agent_name][i].mentions # {}

C25_Witness ==
  /\ Len(thread) = 2
  /\ thread[1].mentions = {}
  /\ thread[2].mentions = {"orchestrator-agent"}
  /\ \A agent_name \in BrokerAgents : cursor[agent_name] = 2
  /\ received["orchestrator-agent"] = <<thread[2]>>
  /\ received["risk-agent"] = <<>>

\* C26: when the voice tool succeeds, the reference in the text it returns
\* is not the filesystem path under which the audio file was written.
VoiceSucceeded ==
  /\ tool_call.tool = "generate_voice_tool"
  /\ tool_result # NoResult
  /\ tool_result.value[1] =
       "Voice-over generated successfully. File saved at: "

C26_VoiceReferenceServable ==
  VoiceSucceeded =>
    \A i \in DOMAIN tool_result.calls :
      tool_result.calls[i][1] = "write_bytes" =>
        Tail(tool_result.value) # Tail(tool_result.calls[i])

\* C27: when the decision step of an agent loop raises, the loop ends with
\* the exception: from then on the loop takes no further iteration and
\* invokes no decision step again.
C27_ExceptionFatal ==
  [][(astep_raises \/ agent.pc = "crashed") =>
       /\ agent'.pc = "crashed"
       /\ agent'.iter = agent.iter
       /\ agent'.stimulus = agent.stimulus
       /\ polled' = polled]_vars

C27_Witness ==
  /\ agent.kind = "orchestrator-agent"
  /\ agent.pc = "crashed"
  /\ agent.iter = 2

\* C28: every step keeps the message log as a prefix of the new log, keeps
\* every stored session with the data it was stored with, and keeps the
\* queue key of every session, also when the stream of the session has
\* completed or was abandoned by its client.
C28_NoEviction ==
  [][/\ Len(messages') >= Len(messages)
     /\ SubSeq(messages', 1, Len(messages)) = messages
     /\ \A s \in DOMAIN sessions :
          s \in DOMAIN sessions' /\ sessions'[s] = sessions[s]
     /\ DOMAIN user_message_queues \subseteq DOMAIN user_message_queues']_vars

C28_Witness ==
  /\ Len(messages) = 2
  /\ \A c \in Streams : pc[c] = "done" /\ session_info[c] # NoSession
  /\ \E c \in Streams : cancelled[c]
  /\ \E c \in Streams : ~cancelled[c]
  /\ DOMAIN sessions = {session_info[c] : c \in Streams}
  /\ DOMAIN user_message_queues = DOMAIN sessions
  /\ \E s \in DOMAIN sessions : ret[s] # <<>>

C30_PollReportsRemoval ==
  [][\A session_id \in SessionIds :
       PollOn(session_id) =>
         /\ resp'.has_message <=>
              Len(QueueOf(session_id)') < Len(QueueOf(session_id))
         /\ resp'.has_message => resp'.message = Head(QueueOf(session_id))
         /\ ~resp'.has_message =>
              user_message_queues' = user_message_queues]_vars

\* C31: a registered stream with a terminal event in its queue eventually
\* ends with its connection deregistered, and unless its client left or its
\* session was not created, the last event it emitted is then the first
\* terminal event published since it registered; a stream that entered its
\* receive loop and ended without its client leaving has emitted such an
\* event, so without one it does not end.
TerminalQueued(c) ==
  /\ c \in Range(connections)
  /\ \E k \in DOMAIN queue[c] : queue[c][k].event \in Terminal

EmittedFirstTerminal(c) ==
  LET L == PublishedSince(c)
      k == FirstTerminal(L)
  IN /\ k > 0
     /\ emitted[c] # <<>>
     /\ Last(emitted[c]).source = "agent"
     /\ Last(emitted[c]).id = L[k].id
     /\ Last(emitted[c]).event = L[k].event

Ended(c) == pc[c] = "done" /\ c \notin Range(connections)

FinalDelivery == {"webhook_callback", "send_completion"}

C32_FinalDeliveryOrchestratorOnly ==
  /\ \A session_id \in coral_sessions :
       /\ DOMAIN agent_graph(session_id) = AgentKinds
       /\ \A a \in AgentKinds :
            /\ agent_graph(session_id)[a] \subseteq customTools
            /\ agent_graph(session_id)[a] \cap FinalDelivery # {}
                 => a = "orchestrator-agent"
            /\ a # "orchestrator-agent"
                 => agent_graph(session_id)[a] = {"send_action_update"}
       /\ FinalDelivery \subseteq agent_graph(session_id)["orchestrator-agent"]
  /\ agent.pc # "none" =>
       /\ agent.session \in coral_sessions
       /\ local_tools[agent.kind] \cap FinalDelivery = {}

C32_Witness ==
  /\ agent.kind = "voice-agent"
  /\ agent.pc = "astep"
  /\ agent.session \in coral_sessions
  /\ agent_graph(agent.session)[agent.kind] = {"send_action_update"}
  /\ local_tools[agent.kind] = {"generate_voice_tool"}

\* C33: a launched agent loop never invokes more than AGENT_LOOP_ITERATIONS
\* decision steps and it ends: it exits after exactly that many steps, unless
\* the process has died of an exception before.
C33_LoopTerminates ==
  /\ [](agent.iter <= AGENT_LOOP_ITERATIONS)
  /\ [](agent.pc = "done" => agent.iter = AGENT_LOOP_ITERATIONS)
  /\ (agent.pc # "none") ~> (agent.pc \in {"done", "crashed"})
  /\ [][agent.pc \in {"done", "crashed"} => agent' = agent]_vars

C33_Witness ==
  /\ agent.kind = "summarizer-agent"
  /\ agent.pc = "done"
  /\ agent.iter = AGENT_LOOP_ITERATIONS
  /\ agent.stimulus = AUTOMATED

\* C34: a payload with the key agent_id posted to /agent/message is never
\* published as `complete`, whatever other keys it carries; with no status
\* key, as in a send_completion call, it is published as `action`, and a
\* stream that relays it keeps waiting: it neither closes nor ends.
C34_AgentIdNeverCompletes ==
  (tool_call.tool = "receive_agent_message" /\ tool_call.request_data.agent_id
     /\ tool_result # NoResult) =>
    /\ Len(messages) = 1
    /\ messages[1].event # "complete"
    /\ \A c \in Streams :
         \A i \in DOMAIN emitted[c] : emitted[c][i].event # "complete"
    /\ tool_call.request_data.status # "failed" =>
         /\ messages[1].event = "action"
         /\ \A c \in Streams :
              c \in coral_sessions =>
                /\ pc[c] \notin {"closing", "done"}
                /\ pc[c] # "idle" => c \in Range(connections)

C34_Witness ==
  /\ tool_call.tool = "receive_agent_message"
  /\ tool_call.request_data.agent_id
  /\ tool_call.request_data.status = None
  /\ tool_call.request_data.summary
  /\ tool_call.request_data.risk_report
  /\ tool_call.request_data.voice_url
  /\ tool_call.request_data.output
  /\ tool_result # NoResult
  /\ \E c \in Streams :
       /\ pc[c] = "waiting"
       /\ queue[c] = <<>>
       /\ Relayed(c) = <<RelayedEvent([event |-> "action", id |-> 1])>>

\* C35: the step a POST /callback takes is the step the same callback with
\* any other request_id, on any other session_id path, takes: the same log
\* entry, the same queues served, the same response; every registered
\* connection gets the `complete` event, whether or not the request_id is
\* that of an outstanding request.
C35_RequestIdIgnored ==
  [][call_receive_callback =>
       /\ \A session_id \in SessionIds, request_id \in RequestIds :
            /\ publish_callback(
                 session_id,
                 [tool_call.callback EXCEPT !.request_id = request_id], {})
            /\ tool_result'.value =
                 callback_response(
                   [tool_call.callback EXCEPT !.request_id = request_id])
       /\ Last(messages') = [event |-> "complete", id |-> Len(messages) + 1]
       /\ \A c \in Streams :
            queue'[c] = IF c \in Range(connections)
                        THEN Append(queue[c], Last(messages'))
                        ELSE queue[c]]_vars

C35_Witness ==
  /\ tool_call.tool = "receive_callback"
  /\ tool_call.callback.request_id = "unknown"
  /\ tool_result # NoResult
  /\ messages = <<[event |-> "complete", id |-> 1]>>
  /\ \A c \in Streams :
       /\ pc[c] = "done"
       /\ Queued(c)
       /\ Last(emitted[c]) = RelayedEvent(messages[1])

\* C36: the queue of a stream is in the connection list, once, exactly
\* while the stream has started and not ended; a stream ends only after a
\* relayed terminal event, after the error of a failed session creation or
\* of a failed enqueue, or when its client leaves, and each time its queue
\* leaves the list; an ended stream stays ended, its queue never returns to
\* the list and gets no further event.
Occurrences(c) ==
  Cardinality({i \in DOMAIN connections : connections[i] = c})

RegisteredWhileRunning ==
  \A c \in Streams :
    /\ Occurrences(c) = IF pc[c] \in {"idle", "done"} THEN 0 ELSE 1
    /\ pc[c] = "done" => queue[c] = <<>>

SETUP_ERRORS == {"Failed to create agent session",
                 "Failed to send message to orchestrator"}

C36_ConnectionLifetime ==
  /\ []RegisteredWhileRunning
  /\ [][\A c \in Streams :
          /\ (pc[c] # "done" /\ pc'[c] = "done") =>
               /\ c \in Range(connections)
               /\ c \notin Range(connections')
               /\ \/ cancelled'[c]
                  \/ /\ pc[c] = "closing"
                     /\ Last(emitted[c]).source = "agent"
                     /\ Last(emitted[c]).event \in Terminal
                  \/ /\ pc[c] = "failed"
                     /\ Last(emitted[c]).event = "error"
                     /\ Last(emitted[c]).action \in SETUP_ERRORS
          /\ pc[c] = "done" =>
               /\ pc'[c] = "done"
               /\ c \notin Range(connections')
               /\ queue'[c] = <<>>
               /\ emitted'[c] = emitted[c]]_vars

C36_Witness ==
  \E c, d \in Streams :
    /\ pc[c] = "done" /\ ~cancelled[c]
    /\ Last(emitted[c]).action = "Failed to send message to orchestrator"
    /\ pc[d] = "done" /\ cancelled[d]
    /\ connections = <<>>
    /\ registered_at[c] = 0
    /\ registered_at[d] = 0
    /\ Len(messages) = 2
    /\ Relayed(c) = <<>>
    /\ Relayed(d) = <<>>

\* C37: a step in which a stream emits an event generated by the backend
\* ('Creating Session', 'Session Created', 'Processing Request', a keepalive
\* or a setup error) leaves the message log, the count /health reports and
\* every queue as they were and emits nothing on any other stream; the log
\* and the queues hold published agent events only.
BACKEND_ACTIONS == {"Creating Session", "Session Created",
                    "Processing Request", "Waiting for Analysis"}

EmitsBackendEvent(c) ==
  /\ Len(emitted'[c]) = Len(emitted[c]) + 1
  /\ Last(emitted'[c]).source = "backend"

OnlyPublishedEvents ==
  /\ Len(messages) = Len(origin)
  /\ \A i \in DOMAIN origin : origin[i] \in {"agent_message", "callback"}
  /\ \A c \in Streams : \A i \in DOMAIN queue[c] :
       /\ queue[c][i].id \in DOMAIN messages
       /\ queue[c][i] = messages[queue[c][i].id]
  /\ \A c \in Streams : \A i \in DOMAIN emitted[c] :
       emitted[c][i].source = "backend" =>
         /\ emitted[c][i].id = 0
         /\ emitted[c][i].action \in BACKEND_ACTIONS \cup SETUP_ERRORS

C37_BackendEventsLocal ==
  /\ []OnlyPublishedEvents
  /\ [][\A c \in Streams :
          EmitsBackendEvent(c) =>
            /\ messages' = messages
            /\ origin' = origin
            /\ health_check'.total_messages = health_check.total_messages
            /\ queue' = queue
            /\ \A d \in Streams \ {c} : emitted'[d] = emitted[d]]_vars

C37_Witness ==
  \E c, d \in Streams :
    /\ c # d
    /\ {emitted[c][i].action : i \in DOMAIN emitted[c]} = BACKEND_ACTIONS
    /\ pc[c] = "waiting"
    /\ queue[c] = messages
    /\ Len(messages) = 1
    /\ pc[d] = "done"
    /\ Last(emitted[d]).action = "Failed to send message to orchestrator"
    /\ health_check.total_messages = 1

\* C38: while the queue of a stream is registered, what the stream has
\* relayed followed by what is in its queue is exactly the log from its
\* registration on; once it is removed, what it relayed is a first part of
\* that, not beyond the first terminal event; nothing logged before the
\* registration is ever delivered to it, and a stream not yet registered has
\* been delivered nothing, whatever the log holds.
C38_NoReplay ==
  \A c \in Streams :
    LET L == PublishedSince(c)
        k == FirstTerminal(L)
        D == Delivered(c)
    IN /\ pc[c] = "idle" => D = <<>>
       /\ c \in Range(connections) => D = L
       /\ pc[c] # "idle" =>
            /\ Len(D) <= Len(L)
            /\ \A i \in DOMAIN D : D[i] = L[i]
       /\ \A i \in DOMAIN D : D[i].id > registered_at[c]
       /\ k > 0 => Len(Relayed(c)) <= k
       /\ Len(messages) = Len(origin)

C38_Witness ==
  \E c \in Streams :
    /\ Len(messages) = 2
    /\ messages[1].event = "complete"
    /\ registered_at[c] = 1
    /\ pc[c] = "waiting"
    /\ Relayed(c) = <<>>
    /\ queue[c] = <<messages[2]>>
    /\ \E i \in DOMAIN emitted[c] : IsKeepalive(emitted[c][i])

\* C39: create_session(S, data), also when S is known and its queue holds
\* messages, stores data as the data of S and leaves S with an empty queue;
\* the data and the queue of every other session, their presence included,
\* the log and the connection list are unchanged.
C39_CreateSessionResets ==
  [][\A session_id \in SessionIds :
       \A session_data \in SessionData(session_id) :
       CreateSessionOn(session_id, session_data) =>
         /\ session_id \in DOMAIN sessions'
         /\ sessions'[session_id] = session_data
         /\ session_id \in DOMAIN user_message_queues'
         /\ user_message_queues'[session_id] = <<>>
         /\ DOMAIN sessions' = DOMAIN sessions \cup {session_id}
         /\ DOMAIN user_message_queues' =
              DOMAIN user_message_queues \cup {session_id}
         /\ \A s \in DOMAIN sessions \ {session_id} :
              sessions'[s] = sessions[s]
         /\ \A s \in DOMAIN user_message_queues \ {session_id} :
              user_message_queues'[s] = user_message_queues[s]
         /\ messages' = messages
         /\ connections' = connections]_vars

C39_Witness ==
  \E s, t \in SessionIds :
    /\ s # t
    /\ s \in DOMAIN sessions
    /\ sessions[s] = [sessionId |-> NoSession]
    /\ Len(enq[s]) = 2
    /\ QueueOf(s) = <<>>
    /\ t \in DOMAIN sessions
    /\ QueueOf(t) = enq[t]
    /\ Len(enq[t]) = 1

\* C40: a poll for session S and an add_user_message(S, m) change no queue
\* but that of S, no stored session, neither the log nor the connection list
\* nor the queue of a connection; the add appends m to the queue of S and
\* creates no other key; the poll creates no key at all, and for an S that
\* has no queue it answers no message and changes nothing in the store.
OthersUntouched(session_id) ==
  /\ \A s \in SessionIds \ {session_id} :
       /\ s \in DOMAIN user_message_queues' <=> s \in DOMAIN user_message_queues
       /\ QueueOf(s)' = QueueOf(s)
  /\ sessions' = sessions
  /\ messages' = messages
  /\ connections' = connections
  /\ queue' = queue

C40_QueueIsolation ==
  [][/\ call_get_user_message_endpoint =>
          /\ OthersUntouched(tool_call.session_id)
          /\ DOMAIN user_message_queues' = DOMAIN user_message_queues
          /\ tool_call.session_id \notin DOMAIN user_message_queues =>
               /\ resp' = [session |-> tool_call.session_id,
                           message |-> None, has_message |-> FALSE]
               /\ user_message_queues' = user_message_queues
     /\ call_add_user_message =>
          /\ OthersUntouched(tool_call.session_id)
          /\ DOMAIN user_message_queues' =
               DOMAIN user_message_queues \cup {tool_call.session_id}
          /\ QueueOf(tool_call.session_id)' =
               Append(QueueOf(tool_call.session_id), tool_call.message)]_vars

C40_Witness ==
  \E s, t \in SessionIds :
    /\ tool_call.tool = "get_user_message_endpoint"
    /\ tool_call.session_id = s
    /\ tool_result # NoResult
    /\ resp = [session |-> s, message |-> None, has_message |-> FALSE]
    /\ s \notin DOMAIN user_message_queues
    /\ s \notin DOMAIN sessions
    /\ t \in DOMAIN sessions
    /\ Len(QueueOf(t)) = 1
    /\ messages # <<>>
    /\ connections # <<>>
    /\ \E c \in Range(connections) : queue[c] # <<>>

====
